---------------------------- MODULE Spec2Model ----------------------------
(***************************************************************************)
(* Byte codecs, big-integer base conversion, Base58Check and identifier    *)
(* generation of the orle tool collection (lib/bytes-codec, the bytes,     *)
(* crypto, numbers and id suites, and the Raycast transforms).             *)
(*                                                                         *)
(* Text is a sequence of one-character strings, a byte string a sequence   *)
(* of integers 0..255, a bigint / an integral JS number a little-endian    *)
(* sequence of 16-bit limbs without high zero limbs (so that values wider  *)
(* than TLC's machine integers keep every bit).                            *)
(***************************************************************************)
EXTENDS Integers, Sequences, FiniteSets, TLC

VARIABLES
    pc,       \* position of the run in progress
    arg,      \* the input and options of the run
    out,      \* the text or value the first operation returned
    res,      \* the value the second operation returned
    now,      \* the wall clock (Date.now()), a wide integer
    emitted,  \* the identifiers generated so far, oldest first
    form      \* the state of a ToolForm on the screen

codecVars == <<pc, arg, out, res>>
idVars == <<now, emitted>>
vars == <<pc, arg, out, res, now, emitted, form>>

None == [kind |-> "none"]

\* No identifier run: the clock and the list of identifiers stay unused.
IdleIds == now = <<>> /\ emitted = <<>>

\* No form on the screen.
IdleForm == form = None

(***************************************************************************)
(* Bounds of the model.                                                    *)
(***************************************************************************)
MaxBytes == 3

\* Byte values the inputs are drawn from: both nibble extremes, a value
\* whose hex form needs its leading zero, ASCII "A", and the high half.
ByteSample == {0, 1, 15, 65, 128, 255}

RECURSIVE SeqsUpTo(_, _)
SeqsUpTo(S, n) ==
    IF n = 0 THEN {<<>>}
    ELSE LET shorter == SeqsUpTo(S, n - 1)
         IN  shorter \cup {Append(s, x) : s \in {t \in shorter : Len(t) = n - 1}, x \in S}

(***************************************************************************)
(* Characters and strings.                                                 *)
(***************************************************************************)
\* The printable ASCII characters in code order, from code 32; the three
\* characters the inputs never contain are written by name.
Ascii ==
  << " ", "!", "QUOTE", "#", "$", "%", "&", "'", "(", ")", "*", "+", ",", "-", ".", "/",
     "0", "1", "2", "3", "4", "5", "6", "7", "8", "9", ":", ";", "<", "=", ">", "?",
     "@", "A", "B", "C", "D", "E", "F", "G", "H", "I", "J", "K", "L", "M", "N", "O",
     "P", "Q", "R", "S", "T", "U", "V", "W", "X", "Y", "Z", "[", "BACKSLASH", "]", "^", "_",
     "BACKTICK", "a", "b", "c", "d", "e", "f", "g", "h", "i", "j", "k", "l", "m", "n", "o",
     "p", "q", "r", "s", "t", "u", "v", "w", "x", "y", "z", "{", "|", "}", "~" >>

\* The UTF-16 code unit of a character (String.prototype.charCodeAt).
CodeTable ==
    [c \in {Ascii[i] : i \in 1..Len(Ascii)} \cup {"\t", "\n", "\r"} |->
        IF c = "\t" THEN 9
        ELSE IF c = "\n" THEN 10
        ELSE IF c = "\r" THEN 13
        ELSE 31 + (CHOOSE i \in 1..Len(Ascii) : Ascii[i] = c)]

CharCode(c) == CodeTable[c]

\* Position of character c in the text s, counted from 0; -1 when absent
\* (String.prototype.indexOf with a one-character argument).
IndexOf(s, c) ==
    LET hits == {i \in 1..Len(s) : s[i] = c}
    IN  IF hits = {} THEN -1 ELSE (CHOOSE i \in hits : \A j \in hits : i <= j) - 1

UpperLetters == SubSeq(Ascii, 34, 59)
LowerLetters == SubSeq(Ascii, 66, 91)

ToLowerChar(c) ==
    IF IndexOf(UpperLetters, c) >= 0 THEN LowerLetters[IndexOf(UpperLetters, c) + 1] ELSE c

ToUpperChar(c) ==
    IF IndexOf(LowerLetters, c) >= 0 THEN UpperLetters[IndexOf(LowerLetters, c) + 1] ELSE c

ToLowerCase(s) == [i \in 1..Len(s) |-> ToLowerChar(s[i])]
ToUpperCase(s) == [i \in 1..Len(s) |-> ToUpperChar(s[i])]

\* The characters the regular expression class \s and trim() treat as
\* white space, as far as the inputs of the model contain them.
IsSpace(c) == c \in {" ", "\t", "\n", "\r"}

\* s.replace(/\s/g, "") and s.replace(/\s+/g, "")
RemoveSpaces(s) == SelectSeq(s, LAMBDA c : ~IsSpace(c))

\* String.prototype.trim
Trim(s) ==
    LET keep == {i \in 1..Len(s) : ~IsSpace(s[i])}
    IN  IF keep = {} THEN <<>>
        ELSE SubSeq(s, CHOOSE i \in keep : \A j \in keep : i <= j,
                       CHOOSE i \in keep : \A j \in keep : i >= j)

\* s.match(/.{1,n}/g) for a text without line breaks: pieces of n
\* characters, the last one shorter when the length is no multiple of n.
Chunks(s, n) ==
    [k \in 1..((Len(s) + n - 1) \div n) |->
        SubSeq(s, (k - 1) * n + 1, IF k * n < Len(s) THEN k * n ELSE Len(s))]

\* Array.prototype.join
RECURSIVE Join(_, _)
Join(parts, sep) ==
    IF parts = <<>> THEN <<>>
    ELSE IF Len(parts) = 1 THEN parts[1]
    ELSE parts[1] \o sep \o Join(Tail(parts), sep)

\* Lexicographic order of strings by code unit (the < operator on strings).
RECURSIVE StrLess(_, _)
StrLess(a, b) ==
    IF b = <<>> THEN FALSE
    ELSE IF a = <<>> THEN TRUE
    ELSE IF Head(a) = Head(b) THEN StrLess(Tail(a), Tail(b))
    ELSE CharCode(Head(a)) < CharCode(Head(b))

Rep(c, n) == [i \in 1..n |-> c]

(***************************************************************************)
(* Results of operations that may throw.                                   *)
(***************************************************************************)
Return(v) == [thrown |-> FALSE, value |-> v, message |-> ""]
Throw(msg) == [thrown |-> TRUE, value |-> <<>>, message |-> msg]

\* Results of a tool's transform: a text, or the tagged error.
TextResult(s) == [type |-> "text", data |-> s, message |-> ""]
ErrorResult(msg) == [type |-> "error", data |-> <<>>, message |-> msg]

(***************************************************************************)
(* Hex (lib/bytes-codec: bytesToHex, hexToBytes; bytes suite: hex-text).   *)
(***************************************************************************)
HexDigits == <<"0", "1", "2", "3", "4", "5", "6", "7", "8", "9", "a", "b", "c", "d", "e", "f">>

\* b.toString(16): no leading zero.
ByteToString16(b) ==
    IF b < 16 THEN <<HexDigits[b + 1]>>
    ELSE <<HexDigits[(b \div 16) + 1], HexDigits[(b % 16) + 1]>>

\* s.padStart(2, "0")
PadStart2(s) == IF Len(s) < 2 THEN <<"0">> \o s ELSE s

RECURSIVE HexOfBytes(_)
HexOfBytes(bytes) ==
    IF bytes = <<>> THEN <<>>
    ELSE PadStart2(ByteToString16(Head(bytes))) \o HexOfBytes(Tail(bytes))

bytesToHexUnpadded(bytes, uppercase) ==
    LET RECURSIVE Raw(_)
        Raw(bs) == IF bs = <<>> THEN <<>> ELSE ByteToString16(Head(bs)) \o Raw(Tail(bs))
    IN  IF uppercase THEN ToUpperCase(Raw(bytes)) ELSE Raw(bytes)

\* bytesToHex that upper-cases whatever the option says.
bytesToHexUpper(bytes, uppercase) == ToUpperCase(HexOfBytes(bytes))

bytesToHex(bytes, uppercase) ==
    IF uppercase THEN ToUpperCase(HexOfBytes(bytes)) ELSE HexOfBytes(bytes)

\* hex.replace(/ /g, " 0x")
RECURSIVE ReplaceSpaceWith0x(_)
ReplaceSpaceWith0x(s) ==
    IF s = <<>> THEN <<>>
    ELSE IF Head(s) = " " THEN <<" ", "0", "x">> \o ReplaceSpaceWith0x(Tail(s))
    ELSE <<Head(s)>> \o ReplaceSpaceWith0x(Tail(s))

\* The hex-text mode after utf8ToBytes: the options uppercase, spacing
\* (a space between bytes) and prefix (0x before every group).
HexText(bytes, uppercase, spacing, prefix) ==
    LET hex    == bytesToHex(bytes, uppercase)
        spaced == IF spacing /\ hex # <<>> THEN Join(Chunks(hex, 2), <<" ">>) ELSE hex
    IN  IF prefix THEN <<"0", "x">> \o ReplaceSpaceWith0x(spaced) ELSE spaced

\* input.replace(/0x/gi, ""): one pass from the left, matches do not overlap.
RECURSIVE Remove0x(_)
Remove0x(s) ==
    IF s = <<>> THEN <<>>
    ELSE IF Len(s) >= 2 /\ s[1] = "0" /\ s[2] \in {"x", "X"} THEN Remove0x(SubSeq(s, 3, Len(s)))
    ELSE <<Head(s)>> \o Remove0x(Tail(s))

IsHexDigit(c) == IndexOf(HexDigits, ToLowerChar(c)) >= 0

\* Number.parseInt(h, 16) of two hex digits
ParseHexPair(h) ==
    16 * IndexOf(HexDigits, ToLowerChar(h[1])) + IndexOf(HexDigits, ToLowerChar(h[2]))

\* hexToBytes that decodes the digits before the first malformed character.
hexToBytesPrefix(input) ==
    LET clean      == RemoveSpaces(Remove0x(input))
        bad        == {i \in 1..Len(clean) : ~IsHexDigit(clean[i])}
        good       == IF bad = {} THEN clean
                      ELSE SubSeq(clean, 1, (CHOOSE i \in bad : \A j \in bad : i <= j) - 1)
        normalized == IF Len(good) % 2 = 0 THEN good ELSE <<"0">> \o good
        matches    == Chunks(normalized, 2)
    IN  Return([i \in 1..Len(matches) |-> ParseHexPair(matches[i])])

\* hexToBytes that completes an odd number of digits at the end.
hexToBytesPadEnd(input) ==
    LET clean      == RemoveSpaces(Remove0x(input))
        normalized == IF Len(clean) % 2 = 0 THEN clean ELSE clean \o <<"0">>
        matches    == Chunks(normalized, 2)
    IN  IF Len(clean) = 0 THEN Return(<<>>)
        ELSE IF \E i \in 1..Len(clean) : ~IsHexDigit(clean[i]) THEN Throw("Invalid hex string")
        ELSE Return([i \in 1..Len(matches) |-> ParseHexPair(matches[i])])

hexToBytes(input) ==
    LET clean      == RemoveSpaces(Remove0x(input))
        normalized == IF Len(clean) % 2 = 0 THEN clean ELSE <<"0">> \o clean
        matches    == Chunks(normalized, 2)
    IN  IF Len(clean) = 0 THEN Return(<<>>)
        ELSE IF \E i \in 1..Len(clean) : ~IsHexDigit(clean[i]) THEN Throw("Invalid hex string")
        ELSE Return([i \in 1..Len(matches) |-> ParseHexPair(matches[i])])

\* The replacement character U+FFFD and the byte order mark U+FEFF.
ReplacementChar == 65533
ByteOrderMark == 65279

\* The UTF-8 decoder of TextDecoder from byte i on: st holds the bytes
\* still needed, the code point so far and the range the next byte must be
\* in.  A byte that cannot continue a sequence ends it with U+FFFD and is
\* read again as a first byte; so does the end of the input.
RECURSIVE Utf8Decode(_, _, _)
Utf8Decode(bytes, i, st) ==
    LET idle == [needed |-> 0, cp |-> 0, lower |-> 128, upper |-> 191]
        b    == bytes[i]
    IN  IF i > Len(bytes) THEN (IF st.needed = 0 THEN <<>> ELSE <<ReplacementChar>>)
        ELSE IF st.needed = 0 THEN
            IF b <= 127 THEN <<b>> \o Utf8Decode(bytes, i + 1, idle)
            ELSE IF b \in 194..223 THEN
                Utf8Decode(bytes, i + 1, [idle EXCEPT !.needed = 1, !.cp = b % 32])
            ELSE IF b \in 224..239 THEN
                Utf8Decode(bytes, i + 1,
                           [needed |-> 2, cp |-> b % 16,
                            lower |-> IF b = 224 THEN 160 ELSE 128,
                            upper |-> IF b = 237 THEN 159 ELSE 191])
            ELSE IF b \in 240..244 THEN
                Utf8Decode(bytes, i + 1,
                           [needed |-> 3, cp |-> b % 8,
                            lower |-> IF b = 240 THEN 144 ELSE 128,
                            upper |-> IF b = 244 THEN 143 ELSE 191])
            ELSE <<ReplacementChar>> \o Utf8Decode(bytes, i + 1, idle)
        ELSE IF b \notin st.lower..st.upper THEN
            <<ReplacementChar>> \o Utf8Decode(bytes, i, idle)
        ELSE IF st.needed = 1 THEN
            <<st.cp * 64 + (b % 64)>> \o Utf8Decode(bytes, i + 1, idle)
        ELSE Utf8Decode(bytes, i + 1,
                        [needed |-> st.needed - 1, cp |-> st.cp * 64 + (b % 64),
                         lower |-> 128, upper |-> 191])

\* bytesToUtf8: the code points of the decoded text; a byte order mark at
\* the start is left out (TextDecoder's default).
bytesToUtf8(bytes) ==
    LET cps == Utf8Decode(bytes, 1, [needed |-> 0, cp |-> 0, lower |-> 128, upper |-> 191])
    IN  IF cps # <<>> /\ Head(cps) = ByteOrderMark THEN Tail(cps) ELSE cps

\* The hex-decode mode of the bytes suite; the text of the result is held
\* as its code points.
HexDecodeMode(text) ==
    LET bytes == hexToBytes(text)
    IN  IF text = <<>> THEN TextResult(<<>>)
        ELSE IF bytes.thrown THEN ErrorResult(bytes.message)
        ELSE TextResult(bytesToUtf8(bytes.value))

(***************************************************************************)
(* Base64 (lib/bytes-codec: bytesToBase64, base64ToBytes, normalizeBase64, *)
(* base64ToUrlSafe, wrap76; the platform's btoa and atob).                 *)
(***************************************************************************)
Base64Alphabet ==
    UpperLetters \o LowerLetters
      \o <<"0", "1", "2", "3", "4", "5", "6", "7", "8", "9", "+", "/">>

\* The six-bit group k (from 1) of a byte sequence, missing bits being 0.
Sextet(bin, k) ==
    LET first == ((k - 1) * 6) \div 8 + 1
        shift == ((k - 1) * 6) % 8
        hi    == bin[first]
        lo    == IF first < Len(bin) THEN bin[first + 1] ELSE 0
    IN  ((hi * 256 + lo) \div (2 ^ (10 - shift))) % 64

\* btoa on a binary string given by its character codes (all below 256):
\* four characters for every three bytes, the last group filled with "=".
btoa(bin) ==
    LET groups == (Len(bin) + 2) \div 3
        digits == (Len(bin) * 8 + 5) \div 6
    IN  [i \in 1..(4 * groups) |->
            IF i <= digits THEN Base64Alphabet[Sextet(bin, i) + 1] ELSE "="]

chunkSize == 32768

\* The loop of bytesToBase64: the binary string built chunk by chunk.
RECURSIVE BinaryFrom(_, _)
BinaryFrom(bytes, i) ==
    IF i >= Len(bytes) THEN <<>>
    ELSE SubSeq(bytes, i + 1, IF i + chunkSize < Len(bytes) THEN i + chunkSize ELSE Len(bytes))
           \o BinaryFrom(bytes, i + chunkSize)

bytesToBase64(bytes) == btoa(BinaryFrom(bytes, 0))

\* A decoder that skips every character outside the alphabet.
atobLenient(input) ==
    LET body    == SelectSeq(input, LAMBDA c : IndexOf(Base64Alphabet, c) >= 0)
        value   == [i \in 1..Len(body) |-> IndexOf(Base64Alphabet, body[i])]
        nBytes  == (Len(body) * 6) \div 8
        ByteAt(j) ==
            LET first == ((j - 1) * 8) \div 6 + 1
                shift == ((j - 1) * 8) % 6
            IN  ((value[first] * 64 + value[first + 1]) \div (2 ^ (4 - shift))) % 256
    IN  Return([j \in 1..nBytes |-> ByteAt(j)])

\* atob (forgiving-base64 decode): ASCII white space is dropped; when the
\* length is a multiple of 4, one or two "=" at the end are dropped; a
\* length of 1 modulo 4 or a character outside the alphabet is an error;
\* every 4 characters give 3 bytes and the bits left over are discarded.
\* The error says "not correctly encoded" when the text without its last
\* one or two "=" is made of alphabet characters only and one character
\* is left over, and "Invalid character" otherwise.
atob(input) ==
    LET data    == RemoveSpaces(input)
        n       == Len(data)
        pad     == IF n % 4 = 0 /\ n >= 2 /\ data[n] = "=" /\ data[n - 1] = "=" THEN 2
                   ELSE IF n % 4 = 0 /\ n >= 1 /\ data[n] = "=" THEN 1
                   ELSE 0
        body    == SubSeq(data, 1, n - pad)
        value   == [i \in 1..Len(body) |-> IndexOf(Base64Alphabet, body[i])]
        nBytes  == (Len(body) * 6) \div 8
        ByteAt(j) ==
            LET first == ((j - 1) * 8) \div 6 + 1
                shift == ((j - 1) * 8) % 6
            IN  ((value[first] * 64 + value[first + 1]) \div (2 ^ (4 - shift))) % 256
        signs   == IF n >= 2 /\ data[n] = "=" /\ data[n - 1] = "=" THEN 2
                   ELSE IF n >= 1 /\ data[n] = "=" THEN 1
                   ELSE 0
        core    == SubSeq(data, 1, n - signs)
        message == IF /\ \A i \in 1..Len(core) : IndexOf(Base64Alphabet, core[i]) >= 0
                      /\ Len(core) % 4 = 1
                   THEN "The string to be decoded is not correctly encoded."
                   ELSE "Invalid character"
    IN  IF Len(body) % 4 = 1 THEN Throw(message)
        ELSE IF \E i \in 1..Len(body) : value[i] < 0 THEN Throw(message)
        ELSE Return([j \in 1..nBytes |-> ByteAt(j)])

\* The bytes are the character codes of the binary string atob returns.
base64ToBytes(input) == atob(input)

ReplaceChar(s, from, to) == [i \in 1..Len(s) |-> IF s[i] = from THEN to ELSE s[i]]

\* while (normalized.length % 4) normalized += "="
PadTo4(s) == s \o Rep("=", (4 - (Len(s) % 4)) % 4)

\* normalizeBase64 without the step that restores "+" and "/".
normalizeBase64NoRestore(input, urlSafe) == PadTo4(RemoveSpaces(Trim(input)))

normalizeBase64(input, urlSafe) ==
    LET stripped == RemoveSpaces(Trim(input))
        restored == IF urlSafe THEN ReplaceChar(ReplaceChar(stripped, "-", "+"), "_", "/")
                    ELSE stripped
    IN  PadTo4(restored)

\* input.replace(/=+$/, "")
RECURSIVE StripTrailingEquals(_)
StripTrailingEquals(s) ==
    IF s # <<>> /\ s[Len(s)] = "=" THEN StripTrailingEquals(SubSeq(s, 1, Len(s) - 1)) ELSE s

base64ToUrlSafe(input) ==
    StripTrailingEquals(ReplaceChar(ReplaceChar(input, "+", "-"), "/", "_"))

LineWidth == 76

\* input.match(/.{1,76}/g)?.join("\n") ?? input
wrap76(input) ==
    IF input = <<>> THEN input ELSE Join(Chunks(input, LineWidth), <<"\n">>)

(***************************************************************************)
(* Wide integers: bigint values and integral JS numbers below 2^53, held   *)
(* as little-endian sequences of limbs below 2^16, zero being <<>>.        *)
(***************************************************************************)
LimbBase == 2^16

RECURSIVE BigNorm(_)
BigNorm(x) ==
    IF x # <<>> /\ x[Len(x)] = 0 THEN BigNorm(SubSeq(x, 1, Len(x) - 1)) ELSE x

RECURSIVE BigMulAddRec(_, _, _)
BigMulAddRec(x, m, carry) ==
    IF x = <<>> THEN (IF carry = 0 THEN <<>> ELSE <<carry>>)
    ELSE LET t == x[1] * m + carry
         IN  <<t % LimbBase>> \o BigMulAddRec(Tail(x), m, t \div LimbBase)

\* x * m + a for 0 <= m <= 2^15 and 0 <= a < 2^15
BigMulAdd(x, m, a) == BigNorm(BigMulAddRec(x, m, a))

\* Long division of x by 0 < d <= 2^15, from the highest limb down:
\* [q |-> the quotient's limbs so far, r |-> the remainder].
RECURSIVE BigDivRec(_, _, _)
BigDivRec(x, d, i) ==
    IF i > Len(x) THEN [q |-> <<>>, r |-> 0]
    ELSE LET hi  == BigDivRec(x, d, i + 1)
             cur == hi.r * LimbBase + x[i]
         IN  [q |-> <<cur \div d>> \o hi.q, r |-> cur % d]

BigDiv(x, d) == BigNorm(BigDivRec(x, d, 1).q)
BigMod(x, d) == BigDivRec(x, d, 1).r

RECURSIVE BigAddRec(_, _, _)
BigAddRec(x, y, carry) ==
    IF x = <<>> /\ y = <<>> THEN (IF carry = 0 THEN <<>> ELSE <<carry>>)
    ELSE LET a == IF x = <<>> THEN 0 ELSE x[1]
             b == IF y = <<>> THEN 0 ELSE y[1]
             t == a + b + carry
         IN  <<t % LimbBase>>
               \o BigAddRec(IF x = <<>> THEN x ELSE Tail(x), IF y = <<>> THEN y ELSE Tail(y),
                            t \div LimbBase)

BigAdd(x, y) == BigNorm(BigAddRec(x, y, 0))

RECURSIVE BigLessRec(_, _, _)
BigLessRec(x, y, i) ==
    IF i = 0 THEN FALSE
    ELSE IF x[i] # y[i] THEN x[i] < y[i]
    ELSE BigLessRec(x, y, i - 1)

\* x < y for normalised x and y
BigLess(x, y) ==
    IF Len(x) # Len(y) THEN Len(x) < Len(y) ELSE BigLessRec(x, y, Len(x))

RECURSIVE BigFromNat(_)
BigFromNat(n) ==
    IF n = 0 THEN <<>> ELSE <<n % LimbBase>> \o BigFromNat(n \div LimbBase)

\* x - y for x >= y, limb by limb with a borrow.
RECURSIVE BigSubRec(_, _, _)
BigSubRec(x, y, borrow) ==
    IF x = <<>> THEN <<>>
    ELSE LET b == IF y = <<>> THEN 0 ELSE y[1]
             t == x[1] - b - borrow
         IN  <<t % LimbBase>>
               \o BigSubRec(Tail(x), IF y = <<>> THEN y ELSE Tail(y), IF t < 0 THEN 1 ELSE 0)

BigSub(x, y) == BigNorm(BigSubRec(x, y, 0))

\* x << k and x >> k: whole limbs first, then the bits that remain.
BigShl(x, k) ==
    IF x = <<>> THEN x
    ELSE Rep(0, k \div 16) \o BigMulAdd(x, 2 ^ (k % 16), 0)

BigShr(x, k) ==
    IF Len(x) <= k \div 16 THEN <<>>
    ELSE BigDiv(SubSeq(x, (k \div 16) + 1, Len(x)), 2 ^ (k % 16))

\* a & b and a | b on two limbs, bit by bit.
RECURSIVE LimbAnd(_, _)
LimbAnd(a, b) ==
    IF a = 0 \/ b = 0 THEN 0
    ELSE 2 * LimbAnd(a \div 2, b \div 2) + (a % 2) * (b % 2)

RECURSIVE LimbOr(_, _)
LimbOr(a, b) ==
    IF a = 0 THEN b
    ELSE IF b = 0 THEN a
    ELSE 2 * LimbOr(a \div 2, b \div 2) + (IF a % 2 = 1 \/ b % 2 = 1 THEN 1 ELSE 0)

\* x & y and x | y for values >= 0.
BigAnd(x, y) ==
    BigNorm([i \in 1..(IF Len(x) < Len(y) THEN Len(x) ELSE Len(y)) |-> LimbAnd(x[i], y[i])])

BigOr(x, y) ==
    [i \in 1..(IF Len(x) < Len(y) THEN Len(y) ELSE Len(x)) |->
        LimbOr(IF i <= Len(x) THEN x[i] ELSE 0, IF i <= Len(y) THEN y[i] ELSE 0)]

\* A value with its sign: the difference of two numbers, a bigint.
Signed(neg, mag) == [neg |-> neg /\ mag # <<>>, mag |-> mag]

\* a - b for a, b >= 0
SignedSub(a, b) ==
    IF BigLess(a, b) THEN Signed(TRUE, BigSub(b, a)) ELSE Signed(FALSE, BigSub(a, b))

\* v & mask for a mask 2^n - 1: the low n bits of v in two's complement,
\* which for a negative v are 2^n - (|v| mod 2^n), or 0.
SignedAndMask(v, mask) ==
    LET low == BigAnd(v.mag, mask)
    IN  IF ~v.neg \/ low = <<>> THEN low ELSE BigSub(BigAdd(mask, <<1>>), low)

(***************************************************************************)
(* Big-integer parsing and formatting (lib/bytes-codec: parseBigInt;       *)
(* BigInt.prototype.toString; numbers suite: base-convert).                *)
(***************************************************************************)
Digits36 ==
    <<"0", "1", "2", "3", "4", "5", "6", "7", "8", "9", "a", "b", "c", "d", "e", "f", "g", "h",
      "i", "j", "k", "l", "m", "n", "o", "p", "q", "r", "s", "t", "u", "v", "w", "x", "y", "z">>

MinBase == 2
MaxBase == 36

\* The same loop on a 16-bit accumulator (a fixed-width integer).
BigLow16(x) == IF x = <<>> THEN <<>> ELSE BigNorm(<<x[1]>>)

RECURSIVE HornerLoop16(_, _, _)
HornerLoop16(clean, base, value) ==
    IF clean = <<>> THEN Return(value)
    ELSE LET digit == IndexOf(Digits36, Head(clean))
         IN  IF digit < 0 \/ digit >= base THEN Throw("Invalid number")
             ELSE HornerLoop16(Tail(clean), base, BigLow16(BigMulAdd(value, base, digit)))

\* The loop of parseBigInt over the cleaned text, from the value so far:
\* a thrown result at the first character that is no digit below base.
RECURSIVE HornerLoop(_, _, _)
HornerLoop(clean, base, value) ==
    IF clean = <<>> THEN Return(value)
    ELSE LET digit == IndexOf(Digits36, Head(clean))
         IN  IF digit < 0 \/ digit >= base THEN Throw("Invalid number")
             ELSE HornerLoop(Tail(clean), base, BigMulAdd(value, base, digit))

\* parseBigInt without the removal of white space inside the text.
parseBigIntTrimOnly(input, base) ==
    LET clean == ToLowerCase(Trim(input))
    IN  IF clean = <<>> THEN Throw("Invalid number")
        ELSE IF base < MinBase \/ base > MaxBase THEN Throw("Unsupported base")
        ELSE HornerLoop(clean, base, <<>>)

parseBigInt(input, base) ==
    LET clean == ToLowerCase(RemoveSpaces(Trim(input)))
    IN  IF clean = <<>> THEN Throw("Invalid number")
        ELSE IF base < MinBase \/ base > MaxBase THEN Throw("Unsupported base")
        ELSE HornerLoop(clean, base, <<>>)

\* BigInt.prototype.toString(radix) for a value >= 0: repeated division,
\* the remainders read backwards; "0" for zero; a RangeError for a radix
\* outside 2..36.
RECURSIVE BigDigitsUpper(_, _)
BigDigitsUpper(x, radix) ==
    IF x = <<>> THEN <<>>
    ELSE BigDigitsUpper(BigDiv(x, radix), radix)
           \o <<ToUpperChar(Digits36[BigMod(x, radix) + 1])>>

RECURSIVE BigDigits(_, _)
BigDigits(x, radix) ==
    IF x = <<>> THEN <<>>
    ELSE BigDigits(BigDiv(x, radix), radix) \o <<Digits36[BigMod(x, radix) + 1]>>

BigToString(x, radix) ==
    IF radix < 2 \/ radix > 36 THEN Throw("toString() radix argument must be between 2 and 36")
    ELSE IF x = <<>> THEN Return(<<"0">>)
    ELSE Return(BigDigits(x, radix))

\* value.replace(/^0x/i, "") and its 0b, 0o variants
StripPrefixLetter(s, letter) ==
    IF Len(s) >= 2 /\ s[1] = "0" /\ ToLowerChar(s[2]) = letter THEN SubSeq(s, 3, Len(s)) ELSE s

stripBasePrefix(value, base) ==
    LET trimmed == Trim(value)
    IN  IF base = 16 THEN StripPrefixLetter(trimmed, "x")
        ELSE IF base = 2 THEN StripPrefixLetter(trimmed, "b")
        ELSE IF base = 8 THEN StripPrefixLetter(trimmed, "o")
        ELSE trimmed

\* Number(opt) || fallback
NumberOr(opt, fallback) == IF opt = 0 THEN fallback ELSE opt

\* The base-convert mode of the numbers suite.
BaseConvert(input, optFromBase, optToBase) ==
    LET text       == Trim(input)
        fromBase   == NumberOr(optFromBase, 10)
        normalized == stripBasePrefix(text, fromBase)
        num        == parseBigInt(normalized, fromBase)
        str        == BigToString(num.value, NumberOr(optToBase, 16))
    IN  IF text = <<>> THEN TextResult(<<>>)
        ELSE IF num.thrown \/ str.thrown THEN ErrorResult("Invalid number")
        ELSE TextResult(str.value)

(***************************************************************************)
(* Base58 (the base58 coder of @scure/base) and Base58Check (crypto suite: *)
(* base58check-encode, base58check-decode, doubleSha256).                  *)
(***************************************************************************)
Base58Alphabet ==
    <<"1", "2", "3", "4", "5", "6", "7", "8", "9",
      "A", "B", "C", "D", "E", "F", "G", "H", "J", "K", "L", "M", "N", "P", "Q", "R", "S", "T",
      "U", "V", "W", "X", "Y", "Z",
      "a", "b", "c", "d", "e", "f", "g", "h", "i", "j", "k", "m", "n", "o", "p", "q", "r", "s",
      "t", "u", "v", "w", "x", "y", "z">>

\* The number of leading elements of s equal to z.
RECURSIVE LeadingCount(_, _)
LeadingCount(s, z) ==
    IF s # <<>> /\ Head(s) = z THEN 1 + LeadingCount(Tail(s), z) ELSE 0

\* The digits of a sequence read as a big-endian numeral in base `from`.
RECURSIVE BigFromDigits(_, _, _)
BigFromDigits(ds, from, acc) ==
    IF ds = <<>> THEN acc ELSE BigFromDigits(Tail(ds), from, BigMulAdd(acc, from, Head(ds)))

\* The big-endian digits of x in base `to`; none for zero.
RECURSIVE BigToDigits(_, _)
BigToDigits(x, to) ==
    IF x = <<>> THEN <<>> ELSE BigToDigits(BigDiv(x, to), to) \o <<BigMod(x, to)>>

\* Radix conversion with the leading zeros dropped.
ConvertRadixDropZeros(ds, from, to) == BigToDigits(BigFromDigits(ds, from, <<>>), to)

\* Radix conversion as base58 does it: leading zero digits are kept one
\* for one, the rest is converted as one number.
ConvertRadix(ds, from, to) ==
    Rep(0, LeadingCount(ds, 0)) \o BigToDigits(BigFromDigits(ds, from, <<>>), to)

Base58Encode(bytes) ==
    LET ds == ConvertRadix(bytes, 256, 58)
    IN  [i \in 1..Len(ds) |-> Base58Alphabet[ds[i] + 1]]

\* base58.decode: an error for a character outside the alphabet.
Base58Decode(text) ==
    LET ds == [i \in 1..Len(text) |-> IndexOf(Base58Alphabet, text[i])]
    IN  IF \E i \in 1..Len(ds) : ds[i] < 0 THEN Throw("Unknown letter")
        ELSE Return(ConvertRadix(ds, 58, 256))

\* crypto.subtle.digest("SHA-256", bytes): the 32 bytes of the SHA-256
\* digest (FIPS 180-4).  A 32-bit word is the pair <<high, low>> of its
\* 16-bit halves.  Ranges of words and of rounds are worked through by
\* halves, the first half before the second, to keep the nesting low.
SubtleDigest(bytes) ==
    LET H0 ==
            <<<<27145, 58983>>, <<47975, 44677>>, <<15470, 62322>>, <<42319, 62778>>,
              <<20750, 21119>>, <<39685, 26764>>, <<8067, 55723>>, <<23520, 52505>>>>
        K ==
            <<<<17034, 12184>>, <<28983, 17553>>, <<46528, 64463>>, <<59829, 56229>>,
              <<14678, 49755>>, <<23025, 4593>>, <<37439, 33444>>, <<43804, 24277>>,
              <<55303, 43672>>, <<4739, 23297>>, <<9265, 34238>>, <<21772, 32195>>,
              <<29374, 23924>>, <<32990, 45566>>, <<39900, 1703>>, <<49563, 61812>>,
              <<58523, 27073>>, <<61374, 18310>>, <<4033, 40390>>, <<9228, 41420>>,
              <<11753, 11375>>, <<19060, 33962>>, <<23728, 43484>>, <<30457, 35034>>,
              <<38974, 20818>>, <<43057, 50797>>, <<45059, 10184>>, <<48985, 32711>>,
              <<50912, 3059>>, <<54695, 37191>>, <<1738, 25425>>, <<5161, 10599>>,
              <<10167, 2693>>, <<11803, 8504>>, <<19756, 28156>>, <<21304, 3347>>,
              <<25866, 29524>>, <<30314, 2747>>, <<33218, 51502>>, <<37490, 11397>>,
              <<41663, 59553>>, <<43034, 26187>>, <<49739, 35696>>, <<51052, 20899>>,
              <<53650, 59417>>, <<54937, 1572>>, <<62478, 13701>>, <<4202, 41072>>,
              <<6564, 49430>>, <<7735, 27656>>, <<10056, 30540>>, <<13488, 48309>>,
              <<14620, 3251>>, <<20184, 43594>>, <<23452, 51791>>, <<26670, 28659>>,
              <<29839, 33518>>, <<30885, 25455>>, <<33992, 30740>>, <<36039, 520>>,
              <<37054, 65530>>, <<42064, 27883>>, <<48889, 41975>>, <<50801, 30962>>>>
        \* One bit of a, b and c combined: parity, choice (b where a is
        \* set, else c) or majority; then the same for the n low bits.
        BitOf3(f, a, b, c) ==
            IF f = "xor" THEN (a + b + c) % 2
            ELSE IF f = "ch" THEN (IF a = 1 THEN b ELSE c)
            ELSE (a + b + c) \div 2
        RECURSIVE Bits3(_, _, _, _, _)
        Bits3(f, a, b, c, n) ==
            IF n = 0 THEN 0
            ELSE BitOf3(f, a % 2, b % 2, c % 2)
                    + 2 * Bits3(f, a \div 2, b \div 2, c \div 2, n - 1)
        Word3(f, x, y, z) ==
            <<Bits3(f, x[1], y[1], z[1], 16), Bits3(f, x[2], y[2], z[2], 16)>>
        \* x rotated right by n bits, and x shifted right by n < 16 bits.
        RotR(x, n) ==
            LET h == IF n >= 16 THEN x[2] ELSE x[1]
                l == IF n >= 16 THEN x[1] ELSE x[2]
                p == 2 ^ (n % 16)
                q == 2 ^ (16 - (n % 16))
            IN  <<(h \div p) + (l % p) * q, (l \div p) + (h % p) * q>>
        ShR(x, n) ==
            LET p == 2 ^ n
                q == 2 ^ (16 - n)
            IN  <<x[1] \div p, (x[2] \div p) + (x[1] % p) * q>>
        \* The sum of two words modulo 2^32.
        WordAdd(x, y) ==
            <<(x[1] + y[1] + ((x[2] + y[2]) \div 65536)) % 65536,
              (x[2] + y[2]) % 65536>>
        BigSigma0(x) == Word3("xor", RotR(x, 2), RotR(x, 13), RotR(x, 22))
        BigSigma1(x) == Word3("xor", RotR(x, 6), RotR(x, 11), RotR(x, 25))
        SmallSigma0(x) == Word3("xor", RotR(x, 7), RotR(x, 18), ShR(x, 3))
        SmallSigma1(x) == Word3("xor", RotR(x, 17), RotR(x, 19), ShR(x, 10))
        \* The message with its padding: a byte 128, zero bytes up to 56
        \* modulo 64, and the bit length as 8 bytes.
        zeros  == (119 - (Len(bytes) % 64)) % 64
        bits   == 8 * Len(bytes)
        padded ==
            bytes \o <<128>> \o [i \in 1..zeros |-> 0]
                  \o <<0, 0, 0, 0, 0, (bits \div 65536) % 256,
                       (bits \div 256) % 256, bits % 256>>
        \* The message schedule of the block that starts after byte `at`:
        \* w with the words from..to added.
        RECURSIVE Schedule(_, _, _, _)
        Schedule(at, w, from, to) ==
            LET b    == at + 4 * (from - 1)
                mid  == (from + to) \div 2
                half == Schedule(at, w, from, mid)
            IN  IF from < to
                THEN IF Len(half) # mid THEN half
                     ELSE Schedule(at, half, mid + 1, to)
                ELSE IF from <= 16
                     THEN Append(w, <<256 * padded[b + 1] + padded[b + 2],
                                      256 * padded[b + 3] + padded[b + 4]>>)
                ELSE Append(w, WordAdd(WordAdd(SmallSigma1(w[from - 2]), w[from - 7]),
                                       WordAdd(SmallSigma0(w[from - 15]), w[from - 16])))
        \* One round on the working variables s = <<a, b, c, d, e, f, g, h>>.
        Round(s, w, t) ==
            LET t1 == WordAdd(WordAdd(WordAdd(s[8], BigSigma1(s[5])),
                                      Word3("ch", s[5], s[6], s[7])),
                              WordAdd(K[t], w[t]))
                t2 == WordAdd(BigSigma0(s[1]), Word3("maj", s[1], s[2], s[3]))
            IN  <<WordAdd(t1, t2), s[1], s[2], s[3], WordAdd(s[4], t1), s[5], s[6], s[7]>>
        RECURSIVE Rounds(_, _, _, _)
        Rounds(s, w, from, to) ==
            LET mid  == (from + to) \div 2
                half == Rounds(s, w, from, mid)
            IN  IF from = to THEN Round(s, w, from)
                ELSE IF Len(half) # 8 THEN half
                ELSE Rounds(half, w, mid + 1, to)
        \* The hash value h with the working variables s added to it.
        AddWords(h, s) ==
            <<WordAdd(h[1], s[1]), WordAdd(h[2], s[2]), WordAdd(h[3], s[3]),
              WordAdd(h[4], s[4]), WordAdd(h[5], s[5]), WordAdd(h[6], s[6]),
              WordAdd(h[7], s[7]), WordAdd(h[8], s[8])>>
        \* The hash value after the block with the schedule w.
        Compress(h, w) ==
            IF Len(w) # 64 THEN h ELSE AddWords(h, Rounds(h, w, 1, 64))
        \* The hash value after the blocks from byte `at` on.
        RECURSIVE Blocks(_, _)
        Blocks(at, h) ==
            IF at >= Len(padded) \/ Len(h) # 8 THEN h
            ELSE Blocks(at + 64, Compress(h, Schedule(at, <<>>, 1, 64)))
        \* The bytes of the eight words of h, high byte first.
        HashBytes(h) ==
            [j \in 1..32 |->
                LET half == h[((j - 1) \div 4) + 1][(((j - 1) % 4) \div 2) + 1]
                IN  IF j % 2 = 1 THEN half \div 256 ELSE half % 256]
    IN  HashBytes(Blocks(0, H0))

doubleSha256(bytes) == SubtleDigest(SubtleDigest(bytes))

\* utf8ToBytes on ASCII text: one byte for each character, its code.
utf8ToBytes(text) == [i \in 1..Len(text) |-> CharCode(text[i])]

decodeByEncoding(value, encoding) ==
    IF value = <<>> THEN Return(<<>>)
    ELSE IF encoding = "hex" THEN hexToBytes(value)
    ELSE IF encoding = "base64" THEN base64ToBytes(normalizeBase64(value, TRUE))
    ELSE Return(utf8ToBytes(value))

\* safeDecodeByEncoding: a thrown error becomes the error field.
safeDecodeByEncoding(value, encoding) == decodeByEncoding(value, encoding)

\* The result of base58check-decode: the text is the JSON form of an
\* object with the fields valid and hex (and text, the payload read as
\* UTF-8, which no property here reads).
CheckedResult(valid, hex) ==
    [type |-> "text", data |-> [valid |-> valid, hex |-> hex], message |-> ""]

\* The base58check-encode mode of the crypto suite.
Base58CheckEncode(text, inputEncoding) ==
    LET decoded  == safeDecodeByEncoding(text, inputEncoding)
        checksum == doubleSha256(decoded.value)
        payload  == decoded.value \o SubSeq(checksum, 1, 4)
    IN  IF text = <<>> THEN TextResult(<<>>)
        ELSE IF decoded.thrown THEN ErrorResult(decoded.message)
        ELSE TextResult(Base58Encode(payload))

\* decoded.slice(0, -4) and decoded.slice(-4)
SliceHead(bytes) == SubSeq(bytes, 1, Len(bytes) - 4)
SliceTail(bytes) == SubSeq(bytes, Len(bytes) - 3, Len(bytes))

MinCheckedLength == 5

\* base58check-decode that treats a checksum mismatch as an error.
Base58CheckDecodeStrict(text) ==
    LET decoded  == Base58Decode(Trim(text))
        payload  == SliceHead(decoded.value)
        checksum == SliceTail(decoded.value)
        expected == SubSeq(doubleSha256(payload), 1, 4)
    IN  IF text = <<>> THEN TextResult(<<>>)
        ELSE IF decoded.thrown THEN ErrorResult("Invalid Base58Check string")
        ELSE IF Len(decoded.value) < MinCheckedLength
             THEN ErrorResult("Invalid Base58Check payload")
        ELSE IF bytesToHex(checksum, FALSE) # bytesToHex(expected, FALSE)
             THEN ErrorResult("Invalid Base58Check string")
        ELSE CheckedResult(TRUE, bytesToHex(payload, FALSE))

\* base58check-decode with the length test off by one.
Base58CheckDecodeShort(text) ==
    LET decoded  == Base58Decode(Trim(text))
        payload  == SliceHead(decoded.value)
        checksum == SliceTail(decoded.value)
        expected == SubSeq(doubleSha256(payload), 1, 4)
        valid    == bytesToHex(checksum, FALSE) = bytesToHex(expected, FALSE)
    IN  IF text = <<>> THEN TextResult(<<>>)
        ELSE IF decoded.thrown THEN ErrorResult("Invalid Base58Check string")
        ELSE IF Len(decoded.value) < MinCheckedLength - 1
             THEN ErrorResult("Invalid Base58Check payload")
        ELSE CheckedResult(valid, bytesToHex(payload, FALSE))

\* base58check-decode that compares the first three checksum bytes only.
Base58CheckDecodeLoose(text) ==
    LET decoded  == Base58Decode(Trim(text))
        payload  == SliceHead(decoded.value)
        checksum == SliceTail(decoded.value)
        expected == SubSeq(doubleSha256(payload), 1, 4)
        valid    == bytesToHex(SubSeq(checksum, 1, 3), FALSE)
                        = bytesToHex(SubSeq(expected, 1, 3), FALSE)
    IN  IF text = <<>> THEN TextResult(<<>>)
        ELSE IF decoded.thrown THEN ErrorResult("Invalid Base58Check string")
        ELSE IF Len(decoded.value) < MinCheckedLength
             THEN ErrorResult("Invalid Base58Check payload")
        ELSE CheckedResult(valid, bytesToHex(payload, FALSE))

\* The base58check-decode mode of the crypto suite.
Base58CheckDecode(text) ==
    LET decoded  == Base58Decode(Trim(text))
        payload  == SliceHead(decoded.value)
        checksum == SliceTail(decoded.value)
        expected == SubSeq(doubleSha256(payload), 1, 4)
        valid    == bytesToHex(checksum, FALSE) = bytesToHex(expected, FALSE)
    IN  IF text = <<>> THEN TextResult(<<>>)
        ELSE IF decoded.thrown THEN ErrorResult("Invalid Base58Check string")
        ELSE IF Len(decoded.value) < MinCheckedLength
             THEN ErrorResult("Invalid Base58Check payload")
        ELSE CheckedResult(valid, bytesToHex(payload, FALSE))

(***************************************************************************)
(* Hex run: hex-text on a byte string, then hexToBytes on its output.      *)
(***************************************************************************)
InitHex ==
    /\ pc = "input"
    /\ arg \in [bytes : SeqsUpTo(ByteSample, MaxBytes),
                uppercase : BOOLEAN, spacing : BOOLEAN, prefix : BOOLEAN]
    /\ out = None
    /\ res = None
    /\ IdleIds
    /\ IdleForm

\* The hex-text mode: the empty text is returned as it is, before the mode
\* is looked at.
HexEncode ==
    /\ pc = "input"
    /\ out' = IF arg.bytes = <<>> THEN <<>>
              ELSE HexText(arg.bytes, arg.uppercase, arg.spacing, arg.prefix)
    /\ pc' = "encoded"
    /\ UNCHANGED <<arg, res, now, emitted, form>>

HexDecode ==
    /\ pc = "encoded"
    /\ res' = hexToBytes(out)
    /\ pc' = "decoded"
    /\ UNCHANGED <<arg, out, now, emitted, form>>

NextHex == HexEncode \/ HexDecode

SpecHex == InitHex /\ [][NextHex]_vars

\* C1: hexToBytes of the hex text of b, under every combination of the
\* uppercase, spacing and prefix options, returns exactly b.
C1_HexRoundTrip ==
    pc = "decoded" => (~res.thrown /\ res.value = arg.bytes)

C1_Witness ==
    /\ pc = "decoded"
    /\ arg.bytes = <<1, 255, 65>>
    /\ arg.uppercase /\ arg.spacing /\ arg.prefix
    /\ out = <<"0", "x", "0", "1", " ", "0", "x", "F", "F", " ", "0", "x", "4", "1">>
    /\ res.value = <<1, 255, 65>>

(***************************************************************************)
(* Hex text run: a text of the user's goes to hexToBytes, whose bytes go   *)
(* back through bytesToHex, or to the hex-decode mode.                     *)
(***************************************************************************)
MaxHexText == 4

\* Digits whose value needs one and two hex digits, in both cases, the
\* letter of the 0x marker, a letter that is no hex digit, and white space.
HexTextChars == {"0", "1", "a", "F", "x", "g", " "}

\* Longer texts: an upper-case marker, markers before every byte, white
\* space of other kinds, an odd number of digits behind a marker, and a
\* malformed character behind valid bytes.
HexTextExtra ==
    { <<"0", "X", "4", "1">>,
      <<"0", "x", "4", "1", " ", "0", "x", "4", "2">>,
      <<"\t", "4", "1", "\n", "4", "2", "\r">>,
      <<"0", "x", "A", "b", "C">>,
      <<"4", "1", "4", "2", "z", "4", "3">>,
      <<"e", "f", "b", "b", "b", "f", "4", "1">>,
      <<"c", "3", "a", "9", "f", "0", "9", "f">> }

HexTexts == SeqsUpTo(HexTextChars, MaxHexText) \cup HexTextExtra

InitHexText ==
    /\ pc = "input"
    /\ arg \in [text : HexTexts]
    /\ out = None
    /\ res = None
    /\ IdleIds
    /\ IdleForm

HexParse ==
    /\ pc = "input"
    /\ out' = hexToBytes(arg.text)
    /\ pc' = "parsed"
    /\ UNCHANGED <<arg, res, now, emitted, form>>

\* bytesToHex (lower case, the default) of the bytes hexToBytes returned.
HexReencode ==
    /\ pc = "parsed"
    /\ ~out.thrown
    /\ res' = bytesToHex(out.value, FALSE)
    /\ pc' = "reencoded"
    /\ UNCHANGED <<arg, out, now, emitted, form>>

HexDecodeText ==
    /\ pc = "input"
    /\ out' = hexToBytes(arg.text)
    /\ res' = HexDecodeMode(arg.text)
    /\ pc' = "decoded"
    /\ UNCHANGED <<arg, now, emitted, form>>

NextHexText == HexParse \/ HexReencode \/ HexDecodeText

SpecHexText == InitHexText /\ [][NextHexText]_vars

\* The characters 0-9a-fA-F and the value of each.
HexChars ==
    {"0", "1", "2", "3", "4", "5", "6", "7", "8", "9",
     "a", "b", "c", "d", "e", "f", "A", "B", "C", "D", "E", "F"}

NibbleValue(c) == (CHOOSE k \in 0..15 : HexDigits[k + 1] = ToLowerChar(c))

\* The text without its 0x markers and its white space.
Unmarked(s) == RemoveSpaces(Remove0x(s))

\* A text that still holds something after that, not all of it hex digits.
Malformed(s) == Unmarked(s) # <<>> /\ \E i \in 1..Len(Unmarked(s)) : Unmarked(s)[i] \notin HexChars

\* C18: on a malformed text hexToBytes throws the invalid-hex error and
\* returns no bytes, and hex-decode gives the tagged error with that
\* message.
C18_HexRejectsMalformed ==
    /\ (pc \in {"parsed", "decoded"} /\ Malformed(arg.text)) =>
           out = Throw("Invalid hex string")
    /\ (pc = "decoded" /\ Malformed(arg.text)) =>
           res = ErrorResult("Invalid hex string")

C18_Witness ==
    /\ pc = "decoded"
    /\ arg.text = <<"4", "1", "4", "2", "z", "4", "3">>
    /\ out.thrown
    /\ res.type = "error"

\* C19: a text of an odd number n of hex digits decodes as the same text
\* behind one "0": (n+1)/2 bytes, the first the value of the first digit,
\* every later one made of the next two digits.
C19_OddLengthPadsFront ==
    (/\ pc = "parsed"
     /\ Len(arg.text) % 2 = 1
     /\ \A i \in 1..Len(arg.text) : arg.text[i] \in HexChars) =>
        /\ ~out.thrown
        /\ out = hexToBytes(<<"0">> \o arg.text)
        /\ Len(out.value) = (Len(arg.text) + 1) \div 2
        /\ out.value[1] = NibbleValue(arg.text[1])
        /\ \A k \in 2..Len(out.value) :
               out.value[k] = 16 * NibbleValue(arg.text[2 * k - 2])
                                + NibbleValue(arg.text[2 * k - 1])

C19_Witness ==
    /\ pc = "parsed"
    /\ arg.text = <<"a", "F", "1">>
    /\ out = Return(<<10, 241>>)

\* s.padStart of one "0" when the number of characters is odd.
PadEven(s) == IF Len(s) % 2 = 0 THEN s ELSE <<"0">> \o s

\* C20 as claimed: the hex of the bytes of an accepted text is the text
\* lower-cased, without its white space.
C20_Original ==
    pc = "reencoded" => res = ToLowerCase(RemoveSpaces(arg.text))

\* C20 (amended): the hex of the bytes of an accepted text is the text
\* without its 0x markers and white space, lower-cased, behind one "0" when
\* it has an odd number of digits.
C20_HexCanonical ==
    pc = "reencoded" => res = PadEven(ToLowerCase(Unmarked(arg.text)))

C20_Witness ==
    /\ pc = "reencoded"
    /\ arg.text = <<"0", "x", "A", "b", "C">>
    /\ res = <<"0", "a", "b", "c">>

(***************************************************************************)
(* Base64 run: a byte string encoded as base64-text (plain or wrapped) or  *)
(* base64url-text, then normalised and decoded as the decode modes do.     *)
(***************************************************************************)
MaxHead == 2

\* Lengths of the run of bytes that follows the head: none, one full line
\* of Base64 text (57 bytes), and two full lines.
FillLengths == {0, 57, 114}

\* The bytes of the run: a cycle that makes every Base64 character class
\* (letters, digits, "+" and "/") appear.
FillByte(i) == <<251, 255, 62, 0, 16, 131, 105>>[(i % 7) + 1]

Base64Inputs ==
    {h \o [i \in 1..n |-> FillByte(i)] : h \in SeqsUpTo(ByteSample, MaxHead), n \in FillLengths}

InitBase64 ==
    /\ pc = "input"
    /\ arg \in [bytes : Base64Inputs, mode : {"base64", "base64-wrap", "base64url"}]
    /\ out = None
    /\ res = None
    /\ IdleIds
    /\ IdleForm

\* base64-text (with or without the lineWrap option) and base64url-text,
\* after utf8ToBytes.
Base64Encode ==
    /\ pc = "input"
    /\ out' = CASE arg.mode = "base64" -> bytesToBase64(arg.bytes)
                [] arg.mode = "base64-wrap" -> wrap76(bytesToBase64(arg.bytes))
                [] arg.mode = "base64url" -> base64ToUrlSafe(bytesToBase64(arg.bytes))
    /\ pc' = "encoded"
    /\ UNCHANGED <<arg, res, now, emitted, form>>

\* base64-decode and base64url-decode, before bytesToUtf8.
Base64Decode ==
    /\ pc = "encoded"
    /\ res' = base64ToBytes(normalizeBase64(out, arg.mode = "base64url"))
    /\ pc' = "decoded"
    /\ UNCHANGED <<arg, out, now, emitted, form>>

NextBase64 == Base64Encode \/ Base64Decode

SpecBase64 == InitBase64 /\ [][NextBase64]_vars

\* C2: decoding the normalised Base64 text (plain, wrapped at 76
\* characters, or URL-safe) gives back the bytes; the URL-safe text holds
\* no "+", "/" or "="; the plain text has a length that is a multiple of 4.
C2_Base64RoundTrip ==
    /\ pc = "decoded" => (~res.thrown /\ res.value = arg.bytes)
    /\ (pc # "input" /\ arg.mode = "base64url") =>
           \A i \in 1..Len(out) : out[i] \notin {"+", "/", "="}
    /\ (pc # "input" /\ arg.mode = "base64") => Len(out) % 4 = 0

C2_WitnessWrap ==
    /\ pc = "decoded"
    /\ arg.mode = "base64-wrap"
    /\ Len(arg.bytes) = 58
    /\ Len(out) = 81
    /\ out[77] = "\n"
    /\ res.value = arg.bytes

C2_WitnessUrl ==
    /\ pc = "decoded"
    /\ arg.mode = "base64url"
    /\ arg.bytes = <<255>> \o [i \in 1..57 |-> FillByte(i)]
    /\ out[1] = "_"
    /\ Len(out) % 4 = 2
    /\ \E i \in 1..Len(out) : out[i] = "-"
    /\ res.value = arg.bytes

C2_Witness ==
    /\ pc = "decoded"
    /\ arg.mode = "base64"
    /\ arg.bytes = <<65>>
    /\ out = <<"Q", "Q", "=", "=">>
    /\ res.value = <<65>>

(***************************************************************************)
(* Number run: parseBigInt on a text, then base-convert of the same text   *)
(* with fromBase = toBase.                                                 *)
(***************************************************************************)
MaxDigits == 3
LongRun == 13

\* A digit of every range, an upper-case and a lower-case letter, white
\* space, and a character that is a digit in no base.
NumChars == {"0", "1", "7", "F", "z", " ", "-"}

NumTexts ==
    SeqsUpTo(NumChars, MaxDigits)
      \cup {Rep(c, LongRun) : c \in {"1", "F", "z"}}
      \cup {<<"0">> \o Rep("1", LongRun), <<"1", " ">> \o Rep("0", LongRun)}

\* The bases the option fields can hold: 0 (an empty field), the bases
\* next to both ends of the supported range, and every supported base.
NumBases == 0..(MaxBase + 1)

InitNum ==
    /\ pc = "input"
    /\ arg \in [text : NumTexts, base : NumBases]
    /\ out = None
    /\ res = None
    /\ IdleIds
    /\ IdleForm

NumParse ==
    /\ pc = "input"
    /\ out' = parseBigInt(arg.text, arg.base)
    /\ pc' = "parsed"
    /\ UNCHANGED <<arg, res, now, emitted, form>>

NumConvert ==
    /\ pc = "parsed"
    /\ res' = BaseConvert(arg.text, arg.base, arg.base)
    /\ pc' = "converted"
    /\ UNCHANGED <<arg, out, now, emitted, form>>

NextNum == NumParse \/ NumConvert

SpecNum == InitNum /\ [][NextNum]_vars

DigitValue(c) == IndexOf(Digits36, ToLowerChar(c))

IsDigitIn(c, base) == DigitValue(c) >= 0 /\ DigitValue(c) < base

RECURSIVE BigPow(_, _)
BigPow(b, k) == IF k = 0 THEN <<1>> ELSE BigMulAdd(BigPow(b, k - 1), b, 0)

\* The sum of d_i * base^(n-i) over the characters of s, from position i.
RECURSIVE PositionalValue(_, _, _)
PositionalValue(s, base, i) ==
    IF i > Len(s) THEN <<>>
    ELSE BigAdd(BigMulAdd(BigPow(base, Len(s) - i), DigitValue(s[i]), 0),
                PositionalValue(s, base, i + 1))

\* C5: a value returned by parseBigInt is the exact positional value of
\* the digits, however long the text; "ff" in base 16 prints as "255".
C5_ParseIsPositionalValue ==
    (pc # "input" /\ ~out.thrown) =>
        /\ out.value = PositionalValue(RemoveSpaces(arg.text), arg.base, 1)
        /\ (arg.text = <<"F", "F">> /\ arg.base = 16
              => BigToString(out.value, 10) = Return(<<"2", "5", "5">>))

C5_Witness ==
    /\ pc = "parsed"
    /\ arg.text = Rep("z", LongRun)
    /\ arg.base = 36
    /\ ~out.thrown
    /\ Len(out.value) > 4

C5_WitnessFF ==
    /\ pc = "parsed" /\ arg.text = <<"F", "F">> /\ arg.base = 16 /\ out = Return(<<255>>)

\* A valid digit string in base b: after trimming it is not empty and all
\* its characters are digits below b.
IsDigitString(s, base) ==
    /\ Trim(s) # <<>>
    /\ \A i \in 1..Len(Trim(s)) : IsDigitIn(Trim(s)[i], base)

RECURSIVE StripLeadingZeros(_)
StripLeadingZeros(s) ==
    IF Len(s) > 1 /\ Head(s) = "0" THEN StripLeadingZeros(Tail(s)) ELSE s

\* C6 as claimed: converting a valid digit string from base b to base b
\* returns the string lower-cased and trimmed.
C6_Original ==
    (pc = "converted" /\ arg.base \in MinBase..MaxBase /\ IsDigitString(arg.text, arg.base)) =>
        res = TextResult(ToLowerCase(Trim(arg.text)))

\* C6 (amended): converting a valid digit string from base b to base b
\* returns the string lower-cased, trimmed and without its leading zeros
\* (a string of zeros becomes "0").
C6_BaseConvertIdentity ==
    (pc = "converted" /\ arg.base \in MinBase..MaxBase /\ IsDigitString(arg.text, arg.base)) =>
        res = TextResult(StripLeadingZeros(ToLowerCase(Trim(arg.text))))

C6_Witness ==
    /\ pc = "converted"
    /\ arg.text = <<" ", "0", "F">>
    /\ arg.base = 16
    /\ res = TextResult(<<"f">>)

\* C7 as claimed: parseBigInt fails exactly when the trimmed text is empty
\* or holds a character that is no digit below base.
C7_Original ==
    (pc # "input" /\ arg.base \in MinBase..MaxBase) =>
        (out.thrown <=> ~IsDigitString(arg.text, arg.base))

\* C7 (amended): parseBigInt fails exactly when the text holds no character
\* other than white space, or holds a character other than white space
\* that is no digit below base; white space inside the text is skipped.
C7_ParseRejects ==
    (pc # "input" /\ arg.base \in MinBase..MaxBase) =>
        (out.thrown <=>
            \/ \A i \in 1..Len(arg.text) : IsSpace(arg.text[i])
            \/ \E i \in 1..Len(arg.text) :
                   ~IsSpace(arg.text[i]) /\ ~IsDigitIn(arg.text[i], arg.base))

C7_Witness ==
    /\ pc = "parsed"
    /\ arg.text = <<"1", " ", "7">>
    /\ arg.base = 8
    /\ out = Return(<<15>>)

C7_WitnessReject ==
    /\ pc = "parsed" /\ arg.text = <<"1", "F">> /\ arg.base = 15 /\ out.thrown

\* C23: for a base below 2 or above 36 parseBigInt fails, and base-convert
\* of a text that is not blank, asked for that base as fromBase and toBase,
\* returns an error result.
C23_UnsupportedBaseIsAnError ==
    (arg.base < 2 \/ arg.base > 36) =>
        /\ pc # "input" => out.thrown
        /\ (pc = "converted" /\ Trim(arg.text) # <<>>) => res.type = "error"

(***************************************************************************)
(* Base58Check run: either a payload is given to base58check-encode (as    *)
(* hex, Base64 or plain text) and the output to base58check-decode, or a   *)
(* text of the user's goes to base58check-decode directly.                 *)
(***************************************************************************)
MaxPayload == 2
MaxRaw == 5

PayloadBytes == {0, 65, 255}
RawBytes == {0, 255}

CharOfCode(b) == Ascii[b - 31]

IsPrintable(bytes) == \A i \in 1..Len(bytes) : bytes[i] \in 32..126

EncodeInputs ==
    {[src |-> "payload", payload |-> p, inputEncoding |-> "hex", text |-> bytesToHex(p, FALSE)]
        : p \in SeqsUpTo(PayloadBytes, MaxPayload)}
    \cup
    {[src |-> "payload", payload |-> p, inputEncoding |-> "base64", text |-> bytesToBase64(p)]
        : p \in SeqsUpTo(PayloadBytes, MaxPayload)}
    \cup
    {[src |-> "payload", payload |-> p, inputEncoding |-> "utf8",
      text |-> [i \in 1..Len(p) |-> CharOfCode(p[i])]]
        : p \in {q \in SeqsUpTo(PayloadBytes, MaxPayload) : IsPrintable(q)}}

\* A byte string that ends with its own checksum: the byte 0 and the first
\* four bytes of its double digest.
CheckedBytes == <<0, 20, 6, 224, 88>>

\* Texts for the decoder: the Base58 form of short byte strings (checksum
\* and all) and of CheckedBytes, the same inside white space, with a space
\* inside, and with a character that Base58 leaves out.
RawTexts == {Base58Encode(r) : r \in SeqsUpTo(RawBytes, MaxRaw) \cup {CheckedBytes}}

DecodeTexts ==
    RawTexts
      \cup {<<" ">> \o t \o <<"\n">> : t \in RawTexts}
      \cup {t \o <<" ", "2">> : t \in RawTexts}
      \cup {t \o <<"0">> : t \in RawTexts}

DecodeInputs ==
    {[src |-> "text", payload |-> <<>>, inputEncoding |-> "none", text |-> t] : t \in DecodeTexts}

InitB58 ==
    /\ pc = "input"
    /\ arg \in EncodeInputs \cup DecodeInputs
    /\ out = None
    /\ res = None
    /\ IdleIds
    /\ IdleForm

B58Encode ==
    /\ pc = "input"
    /\ arg.src = "payload"
    /\ out' = Base58CheckEncode(arg.text, arg.inputEncoding)
    /\ pc' = "encoded"
    /\ UNCHANGED <<arg, res, now, emitted, form>>

\* The text given to the decoder.
DecoderInput == IF arg.src = "payload" THEN out.data ELSE arg.text

B58Decode ==
    /\ \/ pc = "encoded" /\ out.type = "text"
       \/ pc = "input" /\ arg.src = "text"
    /\ res' = Base58CheckDecode(DecoderInput)
    /\ pc' = "decoded"
    /\ UNCHANGED <<arg, out, now, emitted, form>>

\* Byte values put in the place of a checksum byte.
ChecksumReplacements == {0, 255}

\* bytes with the k-th of its last four bytes replaced by b.
ReplaceChecksumByte(bytes, k, b) ==
    [i \in 1..Len(bytes) |-> IF i = Len(bytes) - 4 + k THEN b ELSE bytes[i]]

\* The decoder run a second time, on the Base58 text of the bytes of an
\* accepted text with one checksum byte replaced by another value.
B58DecodeAltered ==
    /\ pc = "decoded"
    /\ res.type = "text"
    /\ DecoderInput # <<>>
    /\ res.data.valid
    /\ \E k \in 1..4, b \in ChecksumReplacements :
          LET bytes   == Base58Decode(Trim(DecoderInput)).value
              altered == ReplaceChecksumByte(bytes, k, b)
              text    == Base58Encode(altered)
          IN  /\ b # bytes[Len(bytes) - 4 + k]
              /\ res' = [first |-> res, index |-> k, byte |-> b, text |-> text,
                         second |-> Base58CheckDecode(text)]
    /\ pc' = "redecoded"
    /\ UNCHANGED <<arg, out, now, emitted, form>>

NextB58 == B58Encode \/ B58Decode \/ B58DecodeAltered

SpecB58 == InitB58 /\ [][NextB58]_vars

Checksum4(payload) == SubSeq(doubleSha256(payload), 1, 4)

\* C3: decoding what base58check-encode made of a non-empty payload p
\* reports valid = true and the hex of p; the encoded bytes are p followed
\* by the first 4 bytes of digest(digest(p)).
C3_Base58CheckRoundTrip ==
    (pc = "decoded" /\ arg.src = "payload" /\ arg.payload # <<>>) =>
        /\ out.type = "text"
        /\ Base58Decode(out.data) = Return(arg.payload \o Checksum4(arg.payload))
        /\ res.type = "text"
        /\ res.data.valid = TRUE
        /\ hexToBytes(res.data.hex) = Return(arg.payload)

C3_Witness ==
    /\ pc = "decoded"
    /\ arg.src = "payload"
    /\ arg.inputEncoding = "hex"
    /\ arg.payload = <<0, 65>>
    /\ out.data[1] = "1"
    /\ Base58Decode(out.data) = Return(<<0, 65, 83, 168, 182, 231>>)
    /\ res = CheckedResult(TRUE, <<"0", "0", "4", "1">>)

\* The bytes the decoder gets from its input, when the input is Base58.
DecodedBytes == Base58Decode(Trim(DecoderInput))

\* C8: a Base58 text of at least 5 bytes whose last 4 bytes are not the
\* checksum of the bytes before them gives a result with valid = false
\* and the payload hex, never the error result.
C8_MismatchIsReported ==
    (/\ pc = "decoded"
     /\ ~DecodedBytes.thrown
     /\ Len(DecodedBytes.value) >= 5
     /\ SliceTail(DecodedBytes.value) # Checksum4(SliceHead(DecodedBytes.value))) =>
        /\ res.type = "text"
        /\ res.data.valid = FALSE
        /\ hexToBytes(res.data.hex) = Return(SliceHead(DecodedBytes.value))

C8_Witness ==
    /\ pc = "decoded"
    /\ arg.src = "text"
    /\ DecodedBytes = Return(<<0, 255, 255, 0, 255>>)
    /\ res = CheckedResult(FALSE, <<"0", "0">>)

\* C9 as claimed: fewer than 5 decoded bytes give the error result; from 5
\* bytes on, the last 4 are the checksum and the rest is the payload.
C9_Original ==
    (pc = "decoded" /\ ~DecodedBytes.thrown) =>
        /\ Len(DecodedBytes.value) < 5 => res.type = "error"
        /\ Len(DecodedBytes.value) >= 5 =>
              /\ res.type = "text"
              /\ Len(res.data.hex) = 2 * (Len(DecodedBytes.value) - 4)
              /\ hexToBytes(res.data.hex) = Return(SliceHead(DecodedBytes.value))
              /\ res.data.valid =
                    (SliceTail(DecodedBytes.value)
                       = Checksum4(SliceHead(DecodedBytes.value)))

\* C9 (amended): for a non-empty input text, fewer than 5 decoded bytes
\* give the error result; from 5 bytes on, the last 4 are the checksum and
\* the rest is the payload.  (An empty input text returns the empty text.)
C9_TooShortIsError ==
    (pc = "decoded" /\ ~DecodedBytes.thrown) =>
        /\ (Len(DecodedBytes.value) < 5 /\ DecoderInput # <<>>) => res.type = "error"
        /\ DecoderInput = <<>> => res = TextResult(<<>>)
        /\ Len(DecodedBytes.value) >= 5 =>
              /\ res.type = "text"
              /\ Len(res.data.hex) = 2 * (Len(DecodedBytes.value) - 4)
              /\ hexToBytes(res.data.hex) = Return(SliceHead(DecodedBytes.value))
              /\ res.data.valid =
                    (SliceTail(DecodedBytes.value)
                       = Checksum4(SliceHead(DecodedBytes.value)))

C9_Witness ==
    /\ pc = "decoded"
    /\ arg.src = "text"
    /\ DecodedBytes = Return(<<0, 0, 255, 255>>)
    /\ res = ErrorResult("Invalid Base58Check payload")

C9_WitnessSplit ==
    /\ pc = "decoded"
    /\ arg.src = "text"
    /\ DecodedBytes = Return(<<255, 0, 0, 255, 255>>)
    /\ res.type = "text" /\ res.data.hex = <<"f", "f">>

\* C30: for a text that base58check-decode accepts with valid = true,
\* replacing any one of the last four decoded bytes (the checksum) by a
\* different value and decoding again gives valid = false and the same
\* payload hex.
C30_ChecksumCorruptionDetected ==
    pc = "redecoded" =>
        /\ res.first.data.valid = TRUE
        /\ Base58Decode(res.text).value
              # Base58Decode(Trim(DecoderInput)).value
        /\ SliceHead(Base58Decode(res.text).value)
              = SliceHead(Base58Decode(Trim(DecoderInput)).value)
        /\ res.second.type = "text"
        /\ res.second.data.valid = FALSE
        /\ res.second.data.hex = res.first.data.hex

C30_Witness ==
    /\ pc = "redecoded"
    /\ arg.src = "payload"
    /\ arg.payload = <<0, 65>>
    /\ res.first = CheckedResult(TRUE, <<"0", "0", "4", "1">>)
    /\ res.index = 4
    /\ Base58Decode(res.text) = Return(<<0, 65, 83, 168, 182, 255>>)
    /\ res.second = CheckedResult(FALSE, <<"0", "0", "4", "1">>)

\* The same for an accepted text that was typed in inside white space,
\* with its first checksum byte replaced.
C30_WitnessText ==
    /\ pc = "redecoded"
    /\ arg.src = "text"
    /\ arg.text[1] = " "
    /\ res.first = CheckedResult(TRUE, <<"0", "0">>)
    /\ res.index = 1
    /\ Base58Decode(res.text) = Return(<<0, 255, 6, 224, 88>>)
    /\ res.second.type = "text" /\ res.second.data.valid = FALSE

(***************************************************************************)
(* ULID (Raycast transforms: ulidGenerator; id suite: ulid-parse,          *)
(* decodeUlidTime).                                                        *)
(***************************************************************************)
ENCODING ==
    <<"0", "1", "2", "3", "4", "5", "6", "7", "8", "9", "A", "B", "C", "D", "E", "F", "G", "H",
      "J", "K", "M", "N", "P", "Q", "R", "S", "T", "V", "W", "X", "Y", "Z">>

TimeLength == 10
RandomLength == 16
RandomBytes == 10
MaxCount == 100

\* The time loop writing the characters in the order it computes them
\* (lowest digit first).
RECURSIVE EncodeTimeLowFirst(_, _)
EncodeTimeLowFirst(time, j) ==
    IF j = 0 THEN <<>>
    ELSE <<ENCODING[BigMod(time, 32) + 1]>> \o EncodeTimeLowFirst(BigDiv(time, 32), j - 1)

\* The time loop of ulidGenerator: j characters, each put in front of the
\* ones before, the integer divided by 32 in between.
RECURSIVE EncodeTime(_, _)
EncodeTime(time, j) ==
    IF j = 0 THEN <<>>
    ELSE EncodeTime(BigDiv(time, 32), j - 1) \o <<ENCODING[BigMod(time, 32) + 1]>>

\* The random loop: character j (from 0) comes from byte j % 10.
EncodeRandom(random) ==
    [k \in 1..RandomLength |-> ENCODING[(random[((k - 1) % RandomBytes) + 1] % 32) + 1]]

\* One pass of the loop of ulidGenerator, at clock reading t.
UlidOf(t, random, lowercase) ==
    LET str == EncodeTime(t, TimeLength) \o EncodeRandom(random)
    IN  IF lowercase THEN ToLowerCase(str) ELSE str

\* Math.min(Number(opts.count) || 1, 100)
CountOf(opt) == IF NumberOr(opt, 1) < MaxCount THEN NumberOr(opt, 1) ELSE MaxCount

\* The character class [0-9A-Z]
IsUlidCharAnyLetter(c) ==
    CharCode(c) \in CharCode("0")..CharCode("9") \/ CharCode(c) \in CharCode("A")..CharCode("Z")

\* The character class [0-9A-HJKMNP-TV-Z]
IsUlidChar(c) ==
    LET code == CharCode(c)
    IN  \/ code \in CharCode("0")..CharCode("9")
        \/ code \in CharCode("A")..CharCode("H")
        \/ c \in {"J", "K", "M", "N"}
        \/ code \in CharCode("P")..CharCode("T")
        \/ code \in CharCode("V")..CharCode("Z")

UlidLength == 26

\* decodeUlidTime reading the whole identifier instead of its time part.
decodeUlidTimeWhole(value) ==
    LET RECURSIVE Loop(_, _)
        Loop(cs, time) ==
            IF cs = <<>> THEN time
            ELSE Loop(Tail(cs), BigMulAdd(time, 32, IndexOf(ENCODING, Head(cs))))
    IN  Loop(value, <<>>)

\* decodeUlidTime: the first 10 characters, by Horner's rule on a bigint;
\* the result, below 2^50, is the same integer as a number.
decodeUlidTime(value) ==
    LET RECURSIVE Loop(_, _)
        Loop(cs, time) ==
            IF cs = <<>> THEN time
            ELSE Loop(Tail(cs), BigMulAdd(time, 32, IndexOf(ENCODING, Head(cs))))
    IN  Loop(SubSeq(value, 1, TimeLength), <<>>)

\* The result of ulid-parse: the text holds the upper-cased ULID and the
\* timestamp (and the date in two forms, which no property here reads).
UlidParsed(value, timestamp) ==
    [type |-> "text", data |-> [ulid |-> value, timestamp |-> timestamp], message |-> ""]

\* The ulid-parse mode of the id suite.
UlidParse(input) ==
    LET value == ToUpperCase(Trim(input))
    IN  IF value = <<>> THEN TextResult(<<>>)
        ELSE IF Len(value) # UlidLength \/ \E i \in 1..Len(value) : ~IsUlidChar(value[i])
             THEN ErrorResult("Invalid ULID")
        ELSE UlidParsed(value, decodeUlidTime(value))

(***************************************************************************)
(* ULID run: the clock advances, ulidGenerator is called (its loop reads   *)
(* the clock once for every identifier), and ulid-parse reads identifiers  *)
(* generated before.                                                       *)
(***************************************************************************)
MaxIds == 2

\* Clock readings below 2^48: the ends of the range, both sides of a
\* carry between two characters, and the present day.
ClockSample ==
    { <<>>, <<31>>, <<32>>, <<1000>>, <<26624, 53221, 395>>, <<65535, 65535, 65535>> }

\* Outcomes of crypto.randomBytes(10).
RandomDraws ==
    { Rep(0, RandomBytes), Rep(255, RandomBytes), [i \in 1..RandomBytes |-> (37 * i) % 256] }

InitUlid ==
    /\ pc = "idle"
    /\ arg \in [lowercase : BOOLEAN, count : {1}]
    /\ out = <<>>
    /\ res = None
    /\ now \in ClockSample
    /\ emitted = <<>>
    /\ IdleForm

Tick ==
    /\ \E t \in ClockSample : BigLess(now, t) /\ now' = t
    /\ UNCHANGED <<pc, arg, out, res, emitted, form>>

\* ulidGenerator is called with a count option; the options stay as set.
UlidCall ==
    /\ pc \in {"idle", "parsed"}
    /\ \E c \in 0..MaxIds :
          /\ Len(emitted) + CountOf(c) <= MaxIds
          /\ arg' = [arg EXCEPT !.count = CountOf(c)]
    /\ out' = <<>>
    /\ pc' = "generating"
    /\ UNCHANGED <<res, now, emitted, form>>

\* One pass of the loop.
UlidStep ==
    /\ pc = "generating"
    /\ Len(out) < arg.count
    /\ \E random \in RandomDraws :
          LET id == UlidOf(now, random, arg.lowercase)
          IN  /\ out' = Append(out, id)
              /\ emitted' = Append(emitted, [ulid |-> id, time |-> now])
    /\ UNCHANGED <<pc, arg, res, now, form>>

UlidReturn ==
    /\ pc = "generating"
    /\ Len(out) = arg.count
    /\ res' = TextResult(Join(out, <<"\n">>))
    /\ pc' = "idle"
    /\ UNCHANGED <<arg, out, now, emitted, form>>

\* ulid-parse on an identifier generated earlier; out keeps which one.
UlidParseEmitted ==
    /\ pc \in {"idle", "parsed"}
    /\ \E i \in 1..Len(emitted) :
          /\ out' = <<i>>
          /\ res' = UlidParse(emitted[i].ulid)
    /\ pc' = "parsed"
    /\ UNCHANGED <<arg, now, emitted, form>>

NextUlid == Tick \/ UlidCall \/ UlidStep \/ UlidReturn \/ UlidParseEmitted

SpecUlid == InitUlid /\ [][NextUlid]_vars

\* C4: ulid-parse of a ULID that ulidGenerator produced at clock reading
\* t < 2^48 reports exactly t, whatever the random part and the case.
C4_UlidTimeRoundTrip ==
    pc = "parsed" =>
        /\ res.type = "text"
        /\ res.data.timestamp = emitted[out[1]].time
        /\ decodeUlidTime(ToUpperCase(emitted[out[1]].ulid)) = emitted[out[1]].time

C4_Witness ==
    /\ pc = "parsed"
    /\ arg.lowercase
    /\ emitted[out[1]].time = <<26624, 53221, 395>>
    /\ SubSeq(emitted[out[1]].ulid, 1, 10) = <<"0", "1", "h", "f", "7", "y", "a", "t", "0", "0">>
    /\ res.data.timestamp = <<26624, 53221, 395>>

C4_WitnessThousand ==
    /\ pc = "parsed"
    /\ emitted[out[1]].time = <<1000>>
    /\ res.data.timestamp = <<1000>>

\* C10: of two ULIDs generated with the same options, the one generated
\* at the strictly earlier clock reading is the smaller string, whatever
\* the random parts.
C10_UlidMonotonic ==
    \A i, j \in 1..Len(emitted) :
        BigLess(emitted[i].time, emitted[j].time) => StrLess(emitted[i].ulid, emitted[j].ulid)

C10_Witness ==
    /\ Len(emitted) = 2
    /\ emitted[1].time = <<31>>
    /\ emitted[2].time = <<32>>
    /\ emitted[1].ulid[11] = "Z"
    /\ emitted[2].ulid[11] = "0"
    /\ StrLess(emitted[1].ulid, emitted[2].ulid)

\* Random parts a ULID could end in: all of the lowest and all of the
\* highest character, and strings whose last six characters differ from
\* their first six.
SuffixTargets ==
    { Rep("0", RandomLength),
      Rep("Z", RandomLength),
      Rep("Z", RandomBytes) \o Rep("0", RandomLength - RandomBytes),
      <<"Z">> \o Rep("0", RandomLength - 1) }

\* Outcomes of crypto.randomBytes(10) that give the characters "0" and "Z"
\* (a character depends on its byte modulo 32 only).
RandomSpace == [1..RandomBytes -> {0, 31}]

\* C16: a ULID that ulidGenerator returned is 26 characters of the
\* alphabet, and at the clock reading it was made at every string over the
\* alphabet is the random part of some ULID that ulidGenerator can return.
C16_EverySuffixPossible ==
    \A k \in 1..Len(emitted) :
        /\ Len(emitted[k].ulid) = 26
        /\ \A i \in 1..26 : IndexOf(ENCODING, ToUpperChar(emitted[k].ulid[i])) >= 0
        /\ \A s \in SuffixTargets :
              \E random \in RandomSpace :
                  UlidOf(emitted[k].time, random, FALSE)
                    = EncodeTime(emitted[k].time, TimeLength) \o s

(***************************************************************************)
(* ULID text run: a text of the user's goes to ulid-parse.                 *)
(***************************************************************************)
\* Two well-formed ULIDs.
UlidBases ==
    { <<"0", "1", "H", "F", "7", "Y", "A", "T", "0", "0">> \o Rep("Z", RandomLength),
      Rep("7", TimeLength) \o Rep("0", RandomLength) }

\* Characters put in the place of one character: the four letters the
\* alphabet leaves out, in both cases, a letter it holds in lower case,
\* and characters that are no letter or digit.
UlidSubstitutes == {"I", "L", "O", "U", "i", "l", "o", "u", "z", "-", " "}

\* A ULID with one character replaced, with a character less or more, in
\* lower case, inside white space; the empty text and white space alone.
UlidTexts ==
    UlidBases
      \cup {[b EXCEPT ![p] = c] : b \in UlidBases, p \in 1..UlidLength, c \in UlidSubstitutes}
      \cup {SubSeq(b, 1, UlidLength - 1) : b \in UlidBases}
      \cup {b \o <<"0">> : b \in UlidBases}
      \cup {ToLowerCase(b) : b \in UlidBases}
      \cup {<<" ", "\t">> \o b \o <<"\n">> : b \in UlidBases}
      \cup {<<>>, <<" ">>, <<" ", "\n">>, <<"0">>}

InitUlidText ==
    /\ pc = "input"
    /\ arg \in [text : UlidTexts]
    /\ out = None
    /\ res = None
    /\ IdleIds
    /\ IdleForm

UlidParseText ==
    /\ pc = "input"
    /\ res' = UlidParse(arg.text)
    /\ pc' = "parsed"
    /\ UNCHANGED <<arg, out, now, emitted, form>>

NextUlidText == UlidParseText

SpecUlidText == InitUlidText /\ [][NextUlidText]_vars

\* The Crockford alphabet, and the texts made of 26 of its characters.
CrockfordChars == {ENCODING[k] : k \in 1..Len(ENCODING)}

IsCrockford26(s) == Len(s) = 26 /\ \A i \in 1..Len(s) : s[i] \in CrockfordChars

\* The input as ulid-parse looks at it.
UlidValue == ToUpperCase(Trim(arg.text))

\* C17 as claimed: a non-empty input that is not 26 Crockford characters
\* after trimming and upper-casing gives the error.
C17_Original ==
    (pc = "parsed" /\ arg.text # <<>> /\ ~IsCrockford26(UlidValue)) =>
        res = ErrorResult("Invalid ULID")

\* C17 (amended): an input that holds more than white space and is not 26
\* Crockford characters after trimming and upper-casing gives the error;
\* white space alone gives the empty text; a timestamp is reported only
\* for 26 Crockford characters, each of the first ten of value 0..31.
C17_UlidParseRejects ==
    pc = "parsed" =>
        /\ (UlidValue # <<>> /\ ~IsCrockford26(UlidValue)) => res = ErrorResult("Invalid ULID")
        /\ UlidValue = <<>> => res.type = "text" /\ res.data = <<>>
        /\ IsCrockford26(UlidValue) =>
              /\ res = UlidParsed(UlidValue, decodeUlidTime(UlidValue))
              /\ \A i \in 1..TimeLength : IndexOf(ENCODING, UlidValue[i]) \in 0..31

C17_Witness ==
    /\ pc = "parsed"
    /\ Len(arg.text) = 26
    /\ arg.text[3] = "u"
    /\ res = ErrorResult("Invalid ULID")

C17_WitnessLength ==
    /\ pc = "parsed"
    /\ Len(arg.text) = 27
    /\ IsCrockford26(SubSeq(arg.text, 1, 26))
    /\ res = ErrorResult("Invalid ULID")

(***************************************************************************)
(* Snowflake and KSUID (id suite: snowflake-generate, ksuid-generate,      *)
(* generateSnowflake, generateKsuid, base62Encode).                        *)
(***************************************************************************)
\* A bigint literal 0x...n
BigOfHex(digits) == HornerLoop(ToLowerCase(digits), 16, <<>>).value

\* 0x1fffffffffffffn, 0x3ff and the range of Math.floor(Math.random() * 4096)
TimestampMask == BigOfHex(<<"1", "f", "f", "f", "f", "f", "f", "f", "f", "f", "f", "f", "f", "f">>)
WorkerMask == 1023
SequenceRange == 4096
TimestampShift == 22
WorkerShift == 12

\* generateSnowflake with the worker id two bits lower, over the sequence.
generateSnowflakeNarrow(workerId, epoch, clock, sequence) ==
    LET timestamp == SignedAndMask(SignedSub(clock, epoch), TimestampMask)
        worker    == BigFromNat(workerId % (WorkerMask + 1))
    IN  BigOr(BigOr(BigShl(timestamp, TimestampShift), BigShl(worker, WorkerShift - 2)),
              BigFromNat(sequence))

\* generateSnowflake at the clock reading `clock`, Math.random() giving
\* the sequence number.  workerId & 0x3ff is the worker id modulo 1024
\* (for an integer of 32 bits, negative ones included).
generateSnowflake(workerId, epoch, clock, sequence) ==
    LET timestamp == SignedAndMask(SignedSub(clock, epoch), TimestampMask)
        worker    == BigFromNat(workerId % (WorkerMask + 1))
    IN  BigOr(BigOr(BigShl(timestamp, TimestampShift), BigShl(worker, WorkerShift)),
              BigFromNat(sequence))

Base62Alphabet ==
    <<"0", "1", "2", "3", "4", "5", "6", "7", "8", "9",
      "A", "B", "C", "D", "E", "F", "G", "H", "I", "J", "K", "L", "M", "N", "O", "P", "Q", "R",
      "S", "T", "U", "V", "W", "X", "Y", "Z",
      "a", "b", "c", "d", "e", "f", "g", "h", "i", "j", "k", "l", "m", "n", "o", "p", "q", "r",
      "s", "t", "u", "v", "w", "x", "y", "z">>

KsuidLength == 27
KsuidEpoch == 1400000000
KsuidPayloadLength == 16

\* s.padStart(n, "0")
PadStart(s, n) == IF Len(s) >= n THEN s ELSE Rep("0", n - Len(s)) \o s

\* base62Encode without the padding.
base62EncodeUnpadded(bytes) ==
    LET ds == BigToDigits(BigFromDigits(bytes, 256, <<>>), 62)
    IN  [i \in 1..Len(ds) |-> Base62Alphabet[ds[i] + 1]]

\* base62Encode: the bytes as one bigint, its base-62 digits from the
\* last to the first, padded to 27 characters.
base62Encode(bytes) ==
    LET ds == BigToDigits(BigFromDigits(bytes, 256, <<>>), 62)
    IN  PadStart([i \in 1..Len(ds) |-> Base62Alphabet[ds[i] + 1]], KsuidLength)

\* view.setUint32(0, timestamp, false): the number modulo 2^32, as four
\* bytes, the highest first.
SetUint32(v) ==
    LET u  == SignedAndMask(v, <<65535, 65535>>)
        ds == BigToDigits(u, 256)
    IN  Rep(0, 4 - Len(ds)) \o ds

\* generateKsuid at the clock reading `clock`, crypto.getRandomValues
\* giving the payload.
\* The 20 bytes of a KSUID: Math.floor(Date.now() / 1000) - 1400000000 in
\* four bytes, then the payload.
KsuidBytes(clock, payload) ==
    LET timestamp == SignedSub(BigDiv(clock, 1000), BigFromNat(KsuidEpoch))
    IN  SetUint32(timestamp) \o payload

generateKsuid(clock, payload) == base62Encode(KsuidBytes(clock, payload))

(***************************************************************************)
(* Identifier run: the clock advances; snowflake-generate or               *)
(* ksuid-generate is called, its loop reading the clock once for every     *)
(* identifier.                                                             *)
(***************************************************************************)
MaxGenerated == 2

\* Clock readings: the millisecond before the default Snowflake epoch,
\* the millisecond before the KSUID epoch and the KSUID epoch itself
\* (1400000000000), 1700000000000, and 2^42.
IdClockSample ==
    { <<960, 5261, 300>>, <<45055, 63104, 325>>, <<45056, 63104, 325>>,
      <<26624, 53221, 395>>, <<0, 0, 1024>> }

\* The epoch option: none (0), the default 1288834974657, 1700000000000.
EpochSample == { <<>>, <<961, 5261, 300>>, <<26624, 53221, 395>> }

\* The worker option: none (0), the default, the highest of ten bits, and
\* one beyond ten bits.
WorkerSample == {0, 1, 1023, 1025}

SequenceDraws == {0, SequenceRange - 1}

PayloadDraws == {Rep(0, KsuidPayloadLength), Rep(255, KsuidPayloadLength)}

InitIds ==
    /\ pc = "idle"
    /\ \/ arg \in [mode : {"snowflake-generate"}, worker : WorkerSample, epoch : EpochSample,
                     count : {1}]
       \/ arg = [mode |-> "ksuid-generate", worker |-> 0, epoch |-> <<>>, count |-> 1]
    /\ out = <<>>
    /\ res = None
    /\ now \in IdClockSample
    /\ emitted = <<>>
    /\ IdleForm

IdTick ==
    /\ \E t \in IdClockSample : BigLess(now, t) /\ now' = t
    /\ UNCHANGED <<pc, arg, out, res, emitted, form>>

\* The transform is called with a count option; the other options stay.
IdCall ==
    /\ pc = "idle"
    /\ \E c \in 0..MaxGenerated :
          /\ Len(emitted) + CountOf(c) <= MaxGenerated
          /\ arg' = [arg EXCEPT !.count = CountOf(c)]
    /\ out' = <<>>
    /\ pc' = "generating"
    /\ UNCHANGED <<res, now, emitted, form>>

\* One pass of the loop of snowflake-generate.
SnowflakeStep ==
    /\ pc = "generating"
    /\ arg.mode = "snowflake-generate"
    /\ Len(out) < arg.count
    /\ \E sequence \in SequenceDraws :
          LET id   == generateSnowflake(arg.worker, arg.epoch, now, sequence)
              text == BigToString(id, 10).value
          IN  /\ out' = Append(out, text)
              /\ emitted' = Append(emitted, [kind |-> "snowflake", time |-> now, id |-> text,
                                             bytes |-> <<>>, sequence |-> sequence])
    /\ UNCHANGED <<pc, arg, res, now, form>>

\* One pass of the loop of ksuid-generate.
KsuidStep ==
    /\ pc = "generating"
    /\ arg.mode = "ksuid-generate"
    /\ Len(out) < arg.count
    /\ \E payload \in PayloadDraws :
          LET id == generateKsuid(now, payload)
          IN  /\ out' = Append(out, id)
              /\ emitted' = Append(emitted, [kind |-> "ksuid", time |-> now, id |-> id,
                                             bytes |-> KsuidBytes(now, payload)])
    /\ UNCHANGED <<pc, arg, res, now, form>>

IdReturn ==
    /\ pc = "generating"
    /\ Len(out) = arg.count
    /\ res' = TextResult(Join(out, <<"\n">>))
    /\ pc' = "idle"
    /\ UNCHANGED <<arg, out, now, emitted, form>>

NextIds == IdTick \/ IdCall \/ SnowflakeStep \/ KsuidStep \/ IdReturn

SpecIds == InitIds /\ [][NextIds]_vars

\* The integer a decimal text stands for, and the one a base-62 text
\* stands for.
DecimalValue(text) ==
    BigFromDigits([i \in 1..Len(text) |-> IndexOf(Digits36, text[i])], 10, <<>>)

Base62Value(text) ==
    BigFromDigits([i \in 1..Len(text) |-> IndexOf(Base62Alphabet, text[i])], 62, <<>>)

\* The timestamp field of an identifier: the bits above bit 21 of a
\* Snowflake, the first 4 of the 20 bytes of a KSUID.
TimeField(e) ==
    IF e.kind = "snowflake" THEN BigShr(DecimalValue(e.id), 22)
    ELSE BigShr(Base62Value(e.id), 128)

\* C11: the timestamp field of an identifier is never below the timestamp
\* field of an identifier generated before it (same mode and options, the
\* clock never going back).
C11_TimeFieldMonotonic ==
    \A i, j \in 1..Len(emitted) :
        i < j => ~BigLess(TimeField(emitted[j]), TimeField(emitted[i]))

\* C14: a KSUID is 27 characters of 0-9A-Za-z, and read as a base-62
\* numeral it is the value of its 20 bytes.
C14_KsuidText ==
    \A k \in 1..Len(emitted) :
        emitted[k].kind = "ksuid" =>
            /\ Len(emitted[k].bytes) = 20
            /\ Len(emitted[k].id) = 27
            /\ \A i \in 1..Len(emitted[k].id) : IndexOf(Base62Alphabet, emitted[k].id[i]) >= 0
            /\ Base62Value(emitted[k].id) = BigFromDigits(emitted[k].bytes, 256, <<>>)

\* The largest 20-byte value, made one second before the KSUID epoch.
C14_Witness ==
    /\ Len(emitted) >= 1
    /\ emitted[1].kind = "ksuid"
    /\ emitted[1].bytes = Rep(255, 20)
    /\ emitted[1].id = <<"a", "W", "g", "E", "P", "T", "l", "1", "t", "m", "e", "b", "f", "s",
                         "Q", "z", "F", "P", "4", "b", "x", "w", "g", "y", "8", "0", "V">>

\* The smallest one, made at the KSUID epoch.
C14_WitnessZero ==
    /\ Len(emitted) >= 1
    /\ emitted[1].kind = "ksuid"
    /\ emitted[1].bytes = Rep(0, 20)
    /\ emitted[1].id = Rep("0", 27)

\* C15: a Snowflake is the decimal form of an integer below 2^64.
C15_SnowflakeFits64 ==
    \A k \in 1..Len(emitted) :
        emitted[k].kind = "snowflake" =>
            BigLess(DecimalValue(emitted[k].id), <<0, 0, 0, 0, 1>>)

\* 2^41, the first time difference the layout of C26 does not speak of.
TimeLimit41 == <<0, 0, 512>>

\* C26: for a worker id in 0..1023 and a clock reading t with
\* 0 <= t - epoch < 2^41, the Snowflake id has the drawn sequence in its
\* low 12 bits, the worker id in the next 10 and t - epoch above them.
C26_SnowflakeLayout ==
    \A k \in 1..Len(emitted) :
        (/\ emitted[k].kind = "snowflake"
         /\ arg.worker \in 0..1023
         /\ ~BigLess(emitted[k].time, arg.epoch)
         /\ BigLess(BigSub(emitted[k].time, arg.epoch), TimeLimit41)) =>
            LET id == DecimalValue(emitted[k].id)
            IN  /\ BigMod(id, 4096) = emitted[k].sequence
                /\ emitted[k].sequence \in 0..4095
                /\ BigMod(BigDiv(id, 4096), 1024) = arg.worker
                /\ BigShr(id, 22) = BigSub(emitted[k].time, arg.epoch)

C26_Witness ==
    /\ Len(emitted) >= 1
    /\ emitted[1].kind = "snowflake"
    /\ arg.worker = 1023
    /\ arg.epoch = <<961, 5261, 300>>
    /\ emitted[1].time = <<26624, 53221, 395>>
    /\ emitted[1].sequence = 4095
    /\ emitted[1].id = <<"1", "7", "2", "4", "5", "5", "1", "1", "1", "0", "4", "6", "0", "4", "4",
                         "0", "5", "7", "5">>

(***************************************************************************)
(* UUID parsing (id suite: uuid-parse, parseUuidDetails; validate and      *)
(* version of the uuid package).                                           *)
(***************************************************************************)
NilUuid == Join(<<Rep("0", 8), Rep("0", 4), Rep("0", 4), Rep("0", 4), Rep("0", 12)>>, <<"-">>)
MaxUuid == Join(<<Rep("f", 8), Rep("f", 4), Rep("f", 4), Rep("f", 4), Rep("f", 12)>>, <<"-">>)

\* validate of the uuid package: five groups of hex digits of 8, 4, 4, 4
\* and 12, a version digit 1..8 and a variant digit 8, 9, a or b, in either
\* case; or the nil or the max UUID.
uuidValidate(value) ==
    \/ /\ Len(value) = 36
       /\ \A i \in 1..36 :
              IF i \in {9, 14, 19, 24} THEN value[i] = "-" ELSE IsHexDigit(value[i])
       /\ value[15] \in {"1", "2", "3", "4", "5", "6", "7", "8"}
       /\ ToLowerChar(value[20]) \in {"8", "9", "a", "b"}
    \/ ToLowerCase(value) \in {NilUuid, MaxUuid}

\* version of the uuid package: parseInt(uuid.slice(14, 15), 16)
uuidVersion(value) == IndexOf(HexDigits, ToLowerChar(value[15]))

\* uuid.replace(/-/g, "")
RemoveDashes(uuid) == SelectSeq(uuid, LAMBDA c : c # "-")

\* 0x01b21dd213814000n, the 100-ns ticks from 1582-10-15 to 1970-01-01
GregorianOffset ==
    BigOfHex(<<"0", "1", "b", "2", "1", "d", "d", "2", "1", "3", "8", "1", "4", "0", "0", "0">>)

TicksPerMs == 10000
TimeHighMask == 4095

\* The version-1 timestamp with the version digit left in the high field.
V1TimestampUnmasked(hex) ==
    LET timeLow  == BigOfHex(SubSeq(hex, 1, 8))
        timeMid  == BigOfHex(SubSeq(hex, 9, 12))
        timeHigh == BigOfHex(SubSeq(hex, 13, 16))
    IN  BigOr(BigOr(BigShl(timeHigh, 48), BigShl(timeMid, 32)), timeLow)

\* The timestamp of a version-1 UUID: time_low, time_mid, and the 12 bits
\* of time_hi behind the version digit.
V1Timestamp(hex) ==
    LET timeLow  == BigOfHex(SubSeq(hex, 1, 8))
        timeMid  == BigOfHex(SubSeq(hex, 9, 12))
        timeHigh == BigAnd(BigOfHex(SubSeq(hex, 13, 16)), <<TimeHighMask>>)
    IN  BigOr(BigOr(BigShl(timeHigh, 48), BigShl(timeMid, 32)), timeLow)

\* The timestamp of a version-6 UUID: 48 high bits, and the 12 low bits
\* behind the version digit.
V6Timestamp(hex) ==
    LET timeHigh == BigOfHex(SubSeq(hex, 1, 12))
        timeLow  == BigAnd(BigOfHex(SubSeq(hex, 13, 16)), <<TimeHighMask>>)
    IN  BigOr(BigShl(timeHigh, 12), timeLow)

\* Number(unix100ns / 10000n) after the subtraction of the offset: the
\* division of a bigint rounds towards zero.
UnixMs(timestamp) ==
    LET unix100ns == SignedSub(timestamp, GregorianOffset)
    IN  Signed(unix100ns.neg, BigDiv(unix100ns.mag, TicksPerMs))

\* `${ms}` for an integer ms of magnitude below 2^53
MsText(ms) ==
    IF ms.mag = <<>> THEN <<"0">>
    ELSE (IF ms.neg THEN <<"-">> ELSE <<>>) \o BigDigits(ms.mag, 10)

\* The version-7 timestamp read with the version digit.
V7MsWide(hex) == Signed(FALSE, BigOfHex(SubSeq(hex, 1, 13)))

\* The milliseconds of a version-7 UUID: its first 12 hex digits.
V7Ms(hex) == Signed(FALSE, BigOfHex(SubSeq(hex, 1, 12)))

\* The variant, from the byte behind the first 16 hex digits.
VariantOf(hex) ==
    LET variantByte == ParseHexPair(SubSeq(hex, 17, 18))
    IN  IF variantByte < 128 THEN "NCS"
        ELSE IF variantByte < 192 THEN "RFC4122"
        ELSE IF variantByte < 224 THEN "Microsoft"
        ELSE "Future"

\* parseUuidDetails: the variant, and for the versions 1, 6 and 7 the
\* timestamp in ms as decimal text (the date, made from it, is left out).
parseUuidDetails(uuid, version) ==
    LET hex == RemoveDashes(uuid)
    IN  [variant   |-> VariantOf(hex),
         hasTime   |-> version \in {1, 6, 7},
         timestamp |-> IF version = 1 THEN MsText(UnixMs(V1Timestamp(hex)))
                       ELSE IF version = 6 THEN MsText(UnixMs(V6Timestamp(hex)))
                       ELSE IF version = 7 THEN MsText(V7Ms(hex))
                       ELSE <<>>]

\* The result of uuid-parse: the text holds the UUID, the version, the
\* variant and, when there is one, the timestamp.
UuidParsed(value, version, parsed) ==
    [type |-> "text",
     data |-> [uuid |-> value, version |-> version, variant |-> parsed.variant,
               hasTime |-> parsed.hasTime, timestamp |-> parsed.timestamp],
     message |-> ""]

\* The uuid-parse mode of the id suite.
UuidParse(input) ==
    LET value == Trim(input)
    IN  IF value = <<>> THEN TextResult(<<>>)
        ELSE IF ~uuidValidate(value) THEN ErrorResult("Invalid UUID")
        ELSE UuidParsed(value, uuidVersion(value), parseUuidDetails(value, uuidVersion(value)))

(***************************************************************************)
(* UUID run: a UUID laid out from a timestamp, or another text, goes to    *)
(* uuid-parse.                                                             *)
(***************************************************************************)
\* Unix milliseconds for version 7: 0, 1000, 1700000000000, 2^48 - 1.
MsSample == { <<>>, <<1000>>, <<26624, 53221, 395>>, <<65535, 65535, 65535>> }

\* 100-ns ticks since 1582-10-15 for the versions 1 and 6: the offset of
\* 1970-01-01, 9999 and 10000 ticks later, the tick 1234 of the Unix
\* millisecond 1700000000000, 2^60 - 1, and two readings before 1970.
TickSample ==
    { <<16384, 4993, 7634, 434>>, <<26383, 4993, 7634, 434>>, <<26384, 4993, 7634, 434>>,
      <<50386, 1199, 33595, 494>>, <<65535, 65535, 65535, 4095>>,
      <<>>, <<16383, 4993, 7634, 434>> }

\* The hex digits of x, n of them.
HexField(x, n) == PadStart(BigDigits(x, 16), n)

\* The layout of a UUID of a version around a timestamp; every other hex
\* digit is `fill`, the variant digit is `variant`.
UuidLayout(version, time, fill, variant) ==
    LET t    == HexField(time, 15)
        m    == HexField(time, 12)
        rest == <<"-", variant>> \o Rep(fill, 3) \o <<"-">> \o Rep(fill, 12)
    IN  IF version = 1 THEN
            SubSeq(t, 8, 15) \o <<"-">> \o SubSeq(t, 4, 7) \o <<"-", "1">> \o SubSeq(t, 1, 3) \o rest
        ELSE IF version = 6 THEN
            SubSeq(t, 1, 8) \o <<"-">> \o SubSeq(t, 9, 12) \o <<"-", "6">> \o SubSeq(t, 13, 15)
              \o rest
        ELSE IF version = 7 THEN
            SubSeq(m, 1, 8) \o <<"-">> \o SubSeq(m, 9, 12) \o <<"-", "7">> \o Rep(fill, 3) \o rest
        ELSE Rep(fill, 8) \o <<"-">> \o Rep(fill, 4) \o <<"-", "4">> \o Rep(fill, 3) \o rest

UuidInputs ==
    {[version |-> v, time |-> t, text |-> IF up THEN ToUpperCase(UuidLayout(v, t, f, r))
                                          ELSE UuidLayout(v, t, f, r)]
        : v \in {1, 6}, t \in TickSample, f \in {"0", "5", "f"}, r \in {"8", "b"},
          up \in BOOLEAN}
    \cup
    {[version |-> 7, time |-> t, text |-> IF up THEN ToUpperCase(UuidLayout(7, t, f, r))
                                          ELSE UuidLayout(7, t, f, r)]
        : t \in MsSample, f \in {"0", "5", "f"}, r \in {"8", "b"}, up \in BOOLEAN}
    \cup
    {[version |-> 4, time |-> <<>>, text |-> UuidLayout(4, <<>>, f, r)]
        : f \in {"0", "5", "f"}, r \in {"8", "b", "c", "7"}}
    \cup
    {[version |-> 0, time |-> <<>>, text |-> x]
        : x \in { <<>>, <<" ">>, NilUuid, MaxUuid, <<" ">> \o NilUuid \o <<"\n">>,
                   RemoveDashes(NilUuid), <<"{">> \o MaxUuid \o <<"}">>,
                   SubSeq(MaxUuid, 1, 35) }}

InitUuid ==
    /\ pc = "input"
    /\ arg \in UuidInputs
    /\ out = None
    /\ res = None
    /\ IdleIds
    /\ IdleForm

UuidParseText ==
    /\ pc = "input"
    /\ res' = UuidParse(arg.text)
    /\ pc' = "parsed"
    /\ UNCHANGED <<arg, out, now, emitted, form>>

NextUuid == UuidParseText

SpecUuid == InitUuid /\ [][NextUuid]_vars

\* The unsigned integer held in hex digits.
HexValue(digits) ==
    BigFromDigits([i \in 1..Len(digits) |-> IndexOf(HexDigits, ToLowerChar(digits[i]))], 16, <<>>)

\* A decimal numeral without a sign.
IsDecimal(text) == text # <<>> /\ \A i \in 1..Len(text) : IsDigitIn(text[i], 10)

\* C12: for a version-7 UUID uuid-parse reports the integer of its first
\* 12 hex digits, which is the Unix-ms time it was laid out for, whatever
\* the later digits are.
C12_UuidV7Timestamp ==
    (pc = "parsed" /\ arg.version = 7) =>
        /\ res.type = "text"
        /\ res.data.version = 7
        /\ res.data.hasTime
        /\ IsDecimal(res.data.timestamp)
        /\ DecimalValue(res.data.timestamp) = arg.time
        /\ DecimalValue(res.data.timestamp)
              = HexValue(SubSeq(arg.text, 1, 8) \o SubSeq(arg.text, 10, 13))

C12_Witness ==
    /\ pc = "parsed"
    /\ arg.version = 7
    /\ arg.time = <<26624, 53221, 395>>
    /\ SubSeq(arg.text, 1, 18)
         = <<"0", "1", "8", "b", "c", "f", "e", "5", "-", "6", "8", "0", "0", "-", "7", "f", "f", "f">>
    /\ res.data.timestamp = <<"1", "7", "0", "0", "0", "0", "0", "0", "0", "0", "0", "0", "0">>

\* C13: a version-1 and a version-6 UUID laid out around the same tick
\* count T >= 0x01B21DD213814000 both parse to (T - 0x01B21DD213814000)
\* div 10000 milliseconds.
C13_UuidV1V6Timestamp ==
    (pc = "parsed" /\ arg.version \in {1, 6} /\ ~BigLess(arg.time, GregorianOffset)) =>
        /\ res.type = "text"
        /\ res.data.version = arg.version
        /\ res.data.hasTime
        /\ IsDecimal(res.data.timestamp)
        /\ DecimalValue(res.data.timestamp)
              = BigDiv(BigSub(arg.time, GregorianOffset), 10000)

C13_Witness ==
    /\ pc = "parsed"
    /\ arg.version = 1
    /\ arg.time = <<50386, 1199, 33595, 494>>
    /\ arg.text[15] = "1"
    /\ res.data.timestamp = <<"1", "7", "0", "0", "0", "0", "0", "0", "0", "0", "0", "0", "0">>

C13_WitnessV6 ==
    /\ pc = "parsed"
    /\ arg.version = 6
    /\ arg.time = <<65535, 65535, 65535, 4095>>
    /\ SubSeq(arg.text, 1, 18) = ToUpperCase(SubSeq(arg.text, 1, 18))
    /\ SubSeq(arg.text, 15, 18) = <<"6", "F", "F", "F">>
    /\ res.data.timestamp
         = <<"1", "0", "3", "0", "7", "2", "8", "5", "7", "6", "6", "0", "6", "8", "4">>

(***************************************************************************)
(* The decode modes of the bytes suite (transform of the bytes-suite tool).*)
(***************************************************************************)
\* binary-decode read without the test of the number of bits.
BinaryDecodeTruncating(text) ==
    LET clean == RemoveSpaces(text)
        ParseInt2(b) == [i \in 1..8 |-> IF b[i] = "1" THEN 2 ^ (8 - i) ELSE 0]
        Sum8(v) == v[1] + v[2] + v[3] + v[4] + v[5] + v[6] + v[7] + v[8]
    IN  IF \E i \in 1..Len(clean) : clean[i] \notin {"0", "1"}
        THEN ErrorResult("Binary input must use 0 or 1 only")
        ELSE TextResult(bytesToUtf8(
                 [j \in 1..(Len(clean) \div 8) |->
                     Sum8(ParseInt2(SubSeq(clean, 8 * j - 7, 8 * j)))]))

\* binary-decode: white space removed, then only 0 and 1, then a multiple
\* of 8 bits, then Number.parseInt(b, 2) on every match of /.{8}/g.
BinaryDecode(text) ==
    LET clean == RemoveSpaces(text)
        ParseInt2(b) == [i \in 1..8 |-> IF b[i] = "1" THEN 2 ^ (8 - i) ELSE 0]
        Sum8(v) == v[1] + v[2] + v[3] + v[4] + v[5] + v[6] + v[7] + v[8]
    IN  IF \E i \in 1..Len(clean) : clean[i] \notin {"0", "1"}
        THEN ErrorResult("Binary input must use 0 or 1 only")
        ELSE IF Len(clean) % 8 # 0
        THEN ErrorResult("Invalid binary (must be multiple of 8 bits)")
        ELSE TextResult(bytesToUtf8(
                 [j \in 1..(Len(clean) \div 8) |->
                     Sum8(ParseInt2(SubSeq(clean, 8 * j - 7, 8 * j)))]))

\* base64-decode (urlSafe = FALSE) and base64url-decode (urlSafe = TRUE):
\* whatever normalizeBase64 or base64ToBytes throws becomes an error result.
Base64DecodeMode(text, urlSafe) ==
    LET decoded == base64ToBytes(normalizeBase64(text, urlSafe))
    IN  IF decoded.thrown
        THEN ErrorResult(IF urlSafe THEN "Invalid Base64URL string"
                         ELSE "Invalid Base64 string")
        ELSE TextResult(bytesToUtf8(decoded.value))

\* base32.decode of @scure/base (RFC 4648 alphabet, padding "="): the
\* length is a multiple of 8, the trailing "=" leave a whole number of
\* bytes, every other character is in the alphabet, and the bits left
\* over behind the last byte are fewer than 5 and all 0.
Base32Alphabet == UpperLetters \o <<"2", "3", "4", "5", "6", "7">>

Base32Decode(text) ==
    LET n      == Len(text)
        pads   == {k \in 0..n : \A i \in (n - k + 1)..n : text[i] = "="}
        k      == CHOOSE p \in pads : \A q \in pads : q <= p
        body   == SubSeq(text, 1, n - k)
        m      == Len(body)
        d      == [i \in 1..m |-> IndexOf(Base32Alphabet, body[i])]
        rest   == (5 * m) % 8
        At(i)  == IF i <= m THEN d[i] ELSE 0
        ByteAt(j) ==
            LET first == (8 * (j - 1)) \div 5 + 1
                shift == (8 * (j - 1)) % 5
            IN  ((At(first) * 1024 + At(first + 1) * 32 + At(first + 2))
                    \div (2 ^ (7 - shift))) % 256
    IN  IF (n * 5) % 8 # 0
        THEN Throw("padding: invalid, string should have whole number of bytes")
        ELSE IF \E e \in (n - k + 1)..n : ((e - 1) * 5) % 8 = 0
        THEN Throw("padding: invalid, string has too much padding")
        ELSE IF \E i \in 1..m : d[i] < 0 THEN Throw("Unknown letter")
        ELSE IF rest >= 5 THEN Throw("Excess padding")
        ELSE IF m > 0 /\ d[m] % (2 ^ rest) # 0 THEN Throw("Non-zero padding")
        ELSE Return([j \in 1..((5 * m) \div 8) |-> ByteAt(j)])

\* base32-decode of the bytes suite
Base32DecodeMode(text) ==
    LET decoded == Base32Decode(Trim(text))
    IN  IF decoded.thrown THEN ErrorResult("Invalid Base32 string")
        ELSE TextResult(bytesToUtf8(decoded.value))

\* base58-decode of the bytes suite
Base58DecodeMode(text) ==
    LET decoded == Base58Decode(Trim(text))
    IN  IF decoded.thrown THEN ErrorResult("Invalid Base58 string")
        ELSE TextResult(bytesToUtf8(decoded.value))

\* String.prototype.includes and String.prototype.startsWith
Includes(s, sub) == \E i \in 1..(Len(s) - Len(sub) + 1) : SubSeq(s, i, i + Len(sub) - 1) = sub

StartsWith(s, prefix) == Len(s) >= Len(prefix) /\ SubSeq(s, 1, Len(prefix)) = prefix

\* The part of s before the first occurrence of c, all of s without one.
Before(s, c) ==
    LET at == {i \in 1..Len(s) : s[i] = c}
    IN  IF at = {} THEN s ELSE SubSeq(s, 1, (CHOOSE i \in at : \A j \in at : i <= j) - 1)

NoDataUrl == [kind |-> "null"]

\* parseDataUrl: /^data:([^,]*?),(.*)$/s, the meta part up to the first
\* comma and the data behind it.
parseDataUrl(input) ==
    LET lead   == <<"d", "a", "t", "a", ":">>
        hasSep == StartsWith(input, lead) /\ \E i \in 6..Len(input) : input[i] = ","
        head   == Before(SubSeq(input, 6, Len(input)), ",")
        meta   == IF head = <<>> THEN <<"t", "e", "x", "t", "/", "p", "l", "a", "i", "n", ";", "c", "h", "a", "r", "s", "e", "t", "=", "U", "S", "-", "A", "S", "C", "I", "I">> ELSE head
        data   == SubSeq(input, 6 + Len(head) + 1, Len(input))
        first  == Before(meta, ";")
    IN  IF ~hasSep THEN NoDataUrl
        ELSE [kind     |-> "dataUrl",
              mime     |-> IF first = <<>> THEN <<"a", "p", "p", "l", "i", "c", "a", "t", "i", "o", "n", "/", "o", "c", "t", "e", "t", "-", "s", "t", "r", "e", "a", "m">> ELSE first,
              data     |-> data,
              isBase64 |-> Includes(meta, <<";", "b", "a", "s", "e", "6", "4">>)]

\* data-url of the bytes suite: the size is computed outside any try
\* block, so what base64ToBytes throws leaves the transform.
DataUrlMode(text) ==
    LET parsed  == parseDataUrl(Trim(text))
        decoded == base64ToBytes(normalizeBase64(parsed.data, TRUE))
    IN  IF parsed = NoDataUrl THEN Return(ErrorResult("Invalid data URL"))
        ELSE IF parsed.isBase64 /\ decoded.thrown THEN Throw(decoded.message)
        ELSE Return([type |-> "text",
                     data |-> [mime |-> parsed.mime, isBase64 |-> parsed.isBase64,
                               size |-> IF parsed.isBase64 THEN Len(decoded.value)
                                        ELSE Len(parsed.data)],
                     message |-> ""])

\* base64-to-file of the bytes suite (filename and mime options unset)
Base64ToFile(text) ==
    LET raw     == Trim(text)
        dataUrl == parseDataUrl(raw)
        base64  == IF dataUrl = NoDataUrl THEN raw ELSE dataUrl.data
        urlSafe == \E i \in 1..Len(base64) : base64[i] \in {"-", "_"}
        decoded == base64ToBytes(normalizeBase64(base64, urlSafe))
    IN  IF raw = <<>> THEN TextResult(<<>>)
        ELSE IF dataUrl # NoDataUrl /\ ~dataUrl.isBase64
        THEN ErrorResult("Data URL must be base64")
        ELSE IF decoded.thrown THEN ErrorResult("Invalid Base64 data")
        ELSE [type |-> "download", data |-> decoded.value,
              mime |-> IF dataUrl = NoDataUrl THEN <<"a", "p", "p", "l", "i", "c", "a", "t", "i", "o", "n", "/", "o", "c", "t", "e", "t", "-", "s", "t", "r", "e", "a", "m">> ELSE dataUrl.mime,
              message |-> ""]

\* bytesToAscii: printable bytes lower-cased, a blank for every other one
bytesToAscii(bytes) ==
    [i \in 1..Len(bytes) |->
        IF bytes[i] >= 65 /\ bytes[i] <= 90 THEN bytes[i] + 32
        ELSE IF bytes[i] >= 32 /\ bytes[i] <= 126 THEN bytes[i]
        ELSE 32]

\* sniffImageMime: the signatures of PNG, JPEG, GIF and WebP, then "<svg"
\* within the first 256 bytes; "null" for none of them.
sniffImageMime(bytes) ==
    LET n == Len(bytes)
        preview == bytesToAscii(SubSeq(bytes, 1, IF n < 256 THEN n ELSE 256))
    IN  IF n >= 8 /\ SubSeq(bytes, 1, 8) = <<137, 80, 78, 71, 13, 10, 26, 10>> THEN "image/png"
        ELSE IF n >= 3 /\ SubSeq(bytes, 1, 3) = <<255, 216, 255>> THEN "image/jpeg"
        ELSE IF n >= 6 /\ SubSeq(bytes, 1, 6) \in {<<71, 73, 70, 56, 55, 97>>,
                                                   <<71, 73, 70, 56, 57, 97>>}
        THEN "image/gif"
        ELSE IF n >= 12 /\ SubSeq(bytes, 1, 4) = <<82, 73, 70, 70>>
                        /\ SubSeq(bytes, 9, 12) = <<87, 69, 66, 80>>
        THEN "image/webp"
        ELSE IF Includes(preview, <<60, 115, 118, 103>>) THEN "image/svg+xml"
        ELSE "null"

\* image-preview of the bytes suite
ImagePreview(text) ==
    LET str     == Trim(text)
        decoded == base64ToBytes(normalizeBase64(str, TRUE))
        sniffed == sniffImageMime(decoded.value)
    IN  IF StartsWith(str, <<"d", "a", "t", "a", ":", "i", "m", "a", "g", "e", "/">>)
        THEN [type |-> "image", data |-> str, message |-> ""]
        ELSE IF decoded.thrown THEN ErrorResult("Invalid Base64 image data")
        ELSE [type |-> "image",
              data |-> [mime   |-> IF sniffed = "null" THEN "image/png" ELSE sniffed,
                        base64 |-> bytesToBase64(decoded.value)],
              message |-> ""]

\* number-base of the bytes suite; fromBase is the option as a number, 10
\* standing for an option left empty.
NumberBase(text, fromBase) ==
    LET clean      == RemoveSpaces(Trim(text))
        normalized == IF fromBase = 16 THEN StripPrefixLetter(clean, "x") ELSE clean
        num        == parseBigInt(normalized, fromBase)
    IN  IF clean = <<>> THEN TextResult(<<>>)
        ELSE IF num.thrown THEN ErrorResult("Invalid number")
        ELSE [type |-> "text",
              data |-> [binary      |-> BigToString(num.value, 2).value,
                        octal       |-> BigToString(num.value, 8).value,
                        decimal     |-> BigToString(num.value, 10).value,
                        hexadecimal |-> ToUpperCase(BigToString(num.value, 16).value)],
              message |-> ""]

\* The transform of the bytes suite on a text input, for its decode
\* modes: the result it resolves to (Return) or the error it rejects with
\* (Throw).
BytesTransform(mode, text, fromBase) ==
    IF text = <<>> THEN Return(TextResult(<<>>))
    ELSE CASE mode = "base64-decode"    -> Return(Base64DecodeMode(text, FALSE))
           [] mode = "base64url-decode" -> Return(Base64DecodeMode(text, TRUE))
           [] mode = "base32-decode"    -> Return(Base32DecodeMode(text))
           [] mode = "base58-decode"    -> Return(Base58DecodeMode(text))
           [] mode = "hex-decode"       -> Return(HexDecodeMode(text))
           [] mode = "binary-decode"    -> Return(BinaryDecode(text))
           [] mode = "base64-to-file"   -> Return(Base64ToFile(text))
           [] mode = "data-url"         -> DataUrlMode(text)
           [] mode = "image-preview"    -> Return(ImagePreview(text))
           [] mode = "number-base"      -> Return(NumberBase(text, fromBase))
           [] OTHER                     -> Return(TextResult(<<>>))

(***************************************************************************)
(* Bytes run: a text goes to one decode mode of the bytes suite.           *)
(***************************************************************************)
MaxBinaryGroups == 2
MaxBase64Text == 4

\* Bytes for the groups of bits: zero, "A", the two bytes of U+00E9, a
\* byte that is no UTF-8, and all ones.
BitByteSample == {0, 65, 195, 169, 128, 255}

BitsOf(byte) == [i \in 1..8 |-> IF (byte \div (2 ^ (8 - i))) % 2 = 1 THEN "1" ELSE "0"]

BitGroups(bytes, sep) == Join([i \in 1..Len(bytes) |-> BitsOf(bytes[i])], sep)

\* Whole groups with and without blanks between them; the same followed
\* by one more character or cut by one; and the shortest texts.
BinaryTexts ==
    LET whole == {BitGroups(bs, sep) : bs \in SeqsUpTo(BitByteSample, MaxBinaryGroups) \ {<<>>},
                                       sep \in {<<>>, <<" ">>}}
    IN  whole
          \cup {w \o <<c>> : w \in whole, c \in {"0", "1", "2", "\n"}}
          \cup {SubSeq(w, 1, Len(w) - 1) : w \in whole}
          \cup SeqsUpTo({"0", "1", "b", " "}, 2)

\* Characters of the Base64 texts: two of the alphabet ("/" only of the
\* standard one), the two URL-safe ones, padding, white space, and a
\* character of neither alphabet.
Base64TextChars == {"Q", "/", "-", "_", "=", " ", "!"}

Base64Texts ==
    SeqsUpTo(Base64TextChars, MaxBase64Text)
      \cup {<<"Q", "U", "J", "D", "R">>,
       <<"Q", "U", "J", "D">>,
       <<"Q", "U", "I", "=">>,
       <<"Q", "Q", "=", "=">>,
       <<"Q", "U", "J", "D", "R", "A">>,
       <<"Q", "U", "J", "D", "R", "E">>,
       <<"P", "z", "8", "_">>,
       <<"P", "z", "8", "/">>,
       <<"+", "/", "+", "/">>,
       <<"Q", " ", "Q", "\n", "=", "=">>}

HexModeTexts == SeqsUpTo(HexTextChars, 2) \cup HexTextExtra

Base32Texts ==
    {<<"M", "E", "=", "=", "=", "=", "=", "=">>,
       <<"M", "F", "R", "G", "G", "=", "=", "=">>,
       <<"M", "F", "R", "G", "G", "Z", "D", "F">>,
       <<"M", "E">>,
       <<"M", "E", "=", "=", "=", "=", "=">>,
       <<"M", "=", "=", "=", "=", "=", "=", "=">>,
       <<"M", "F", "=", "=", "=", "=", "=", "=">>,
       <<"M", "1", "=", "=", "=", "=", "=", "=">>,
       <<"m", "e", "=", "=", "=", "=", "=", "=">>,
       <<"M", "F", "R", "A", "=", "=", "=", "=">>,
       <<"=", "=", "=", "=", "=", "=", "=", "=">>,
       <<" ", "M", "E", "=", "=", "=", "=", "=", "=", " ">>,
       <<" ">>}

Base58Texts ==
    {<<"2", "g">>,
       <<"0">>,
       <<"1">>,
       <<"1", "1">>,
       <<"S", "t", "V", "1", "D", "L", "6", "C", "w", "T", "r", "y", "K", "y", "V">>,
       <<" ", "2", "g", " ">>,
       <<" ">>,
       <<"l">>}

FileTexts ==
    {<<"Q", "U", "J", "D">>,
       <<"d", "a", "t", "a", ":", "t", "e", "x", "t", "/", "p", "l", "a", "i", "n", ",", "h", "i">>,
       <<"d", "a", "t", "a", ":", "i", "m", "a", "g", "e", "/", "p", "n", "g", ";", "b", "a", "s", "e", "6", "4", ",", "Q", "U", "J", "D">>,
       <<"d", "a", "t", "a", ":", ";", "b", "a", "s", "e", "6", "4", ",", "Q">>,
       <<" ">>,
       <<"Q">>,
       <<"P", "z", "8", "_">>,
       <<"P", "z", "8", "/">>,
       <<"d", "a", "t", "a", ":", ";", "b", "a", "s", "e", "6", "4", ",">>}

DataUrlTexts ==
    {<<"d", "a", "t", "a", ":", "t", "e", "x", "t", "/", "p", "l", "a", "i", "n", ",", "h", "i">>,
       <<"d", "a", "t", "a", ":", ";", "b", "a", "s", "e", "6", "4", ",", "Q", "U", "J", "D">>,
       <<"d", "a", "t", "a", ":", "t", "e", "x", "t", "/", "p", "l", "a", "i", "n", ";", "b", "a", "s", "e", "6", "4", ",", "Q">>,
       <<"d", "a", "t", "a", ":", "a", ";", "b", "a", "s", "e", "6", "4", ",", "!">>,
       <<"n", "o", "d", "a", "t", "a">>,
       <<"d", "a", "t", "a", ":", "n", "o", "c", "o", "m", "m", "a">>,
       <<"d", "a", "t", "a", ":", ",">>,
       <<"d", "a", "t", "a", ":", ";", "b", "a", "s", "e", "6", "4", ",">>,
       <<" ", "d", "a", "t", "a", ":", ",", "a", ",", "b", " ">>,
       <<"D", "a", "t", "a", ":", ",">>}

ImageTexts ==
    {<<"d", "a", "t", "a", ":", "i", "m", "a", "g", "e", "/", "p", "n", "g", ";", "b", "a", "s", "e", "6", "4", ",", "Q", "U", "J", "D">>,
       <<"Q", "U", "J", "D">>,
       <<"!">>,
       <<"Q">>,
       <<"i", "V", "B", "O", "R", "w", "0", "K", "G", "g", "o", "=">>,
       <<"_", "9", "j", "_">>,
       <<"R", "0", "l", "G", "O", "D", "l", "h">>,
       <<"R", "0", "l", "G", "O", "D", "d", "h">>,
       <<"P", "H", "N", "2", "Z", "z", "4", "=">>,
       <<"P", "F", "N", "W", "R", "z", "4", "=">>,
       <<"U", "k", "l", "G", "R", "n", "h", "4", "e", "H", "h", "X", "R", "U", "J", "Q">>,
       <<" ">>}

NumberTexts ==
    {<<"f", "f">>,
       <<"0", "x", "F", "F">>,
       <<"1", "2">>,
       <<" ", "1", " ", "0", " ">>,
       <<"z", "z">>,
       <<"-", "1">>,
       <<" ">>,
       <<"7", "7", "7">>,
       <<"0">>}

\* fromBase as the option list offers it, and two values it does not.
FromBases == {2, 8, 10, 16, 0, 37}

BytesCase(mode, texts) == {[mode |-> mode, text |-> t, fromBase |-> 10] : t \in texts}

BytesInputs ==
    BytesCase("base64-decode", Base64Texts) \cup BytesCase("base64url-decode", Base64Texts)
      \cup BytesCase("base32-decode", Base32Texts) \cup BytesCase("base58-decode", Base58Texts)
      \cup BytesCase("hex-decode", HexModeTexts) \cup BytesCase("binary-decode", BinaryTexts)
      \cup BytesCase("base64-to-file", FileTexts) \cup BytesCase("data-url", DataUrlTexts)
      \cup BytesCase("image-preview", ImageTexts)
      \cup {[mode |-> "number-base", text |-> t, fromBase |-> b] : t \in NumberTexts, b \in FromBases}

InitBytes ==
    /\ pc = "input"
    /\ arg \in BytesInputs
    /\ out = None
    /\ res = None
    /\ IdleIds
    /\ IdleForm

\* One call of the transform, to the point where its promise settles.
BytesRun ==
    /\ pc = "input"
    /\ res' = BytesTransform(arg.mode, arg.text, arg.fromBase)
    /\ pc' = "settled"
    /\ UNCHANGED <<arg, out, now, emitted, form>>

NextBytes == BytesRun

SpecBytes == InitBytes /\ [][NextBytes]_vars

\* The text without white space, and the byte of its group j of 8 bits.
BitText(text) == SelectSeq(text, LAMBDA c : c \notin {" ", "\t", "\n", "\r"})

GroupValue(bits, j) ==
    LET b(i) == IF bits[8 * (j - 1) + i] = "1" THEN 1 ELSE 0
    IN  128 * b(1) + 64 * b(2) + 32 * b(3) + 16 * b(4) + 8 * b(5) + 4 * b(6) + 2 * b(7) + b(8)

\* C21: binary-decode returns an error result for a text that, white
\* space removed, holds a character other than 0 and 1 or a number of
\* bits that is no multiple of 8; for any other text it decodes one byte
\* for every group of 8 bits, in order, the first bit the highest.
C21_BinaryDecode ==
    (pc = "settled" /\ arg.mode = "binary-decode") =>
        LET bits == BitText(arg.text)
        IN  /\ ~res.thrown
            /\ (\E i \in 1..Len(bits) : bits[i] \notin {"0", "1"}) => res.value.type = "error"
            /\ Len(bits) % 8 # 0 => res.value.type = "error"
            /\ ((\A i \in 1..Len(bits) : bits[i] \in {"0", "1"}) /\ Len(bits) % 8 = 0) =>
                   res.value = TextResult(bytesToUtf8(
                                   [j \in 1..(Len(bits) \div 8) |-> GroupValue(bits, j)]))

C21_Witness ==
    /\ pc = "settled"
    /\ arg.mode = "binary-decode"
    /\ arg.text = <<"1", "1", "0", "0", "0", "0", "1", "1", " ", "1", "0", "1", "0", "1", "0", "0", "1">>
    /\ res = Return(TextResult(<<233>>))

C21_WitnessBits ==
    /\ pc = "settled"
    /\ arg.mode = "binary-decode"
    /\ arg.text = <<"0", "1", "0", "0", "0", "0", "0", "1", "0">>
    /\ res = Return(ErrorResult("Invalid binary (must be multiple of 8 bits)"))

\* The normal form of a Base64 text: white space removed, for the URL-safe
\* mode "-" read as "+" and "_" as "/", then "=" up to a multiple of 4.
NormalBase64(text, urlSafe) ==
    LET clean == BitText(text)
        std   == [i \in 1..Len(clean) |->
                     IF urlSafe /\ clean[i] = "-" THEN "+"
                     ELSE IF urlSafe /\ clean[i] = "_" THEN "/"
                     ELSE clean[i]]
    IN  std \o [i \in 1..((4 - (Len(std) % 4)) % 4) |-> "="]

\* Valid Base64: characters of the standard alphabet, then no, one or two
\* "=", a multiple of 4 in all.
WellFormedBase64(text) ==
    /\ Len(text) % 4 = 0
    /\ \E p \in 0..2 :
          /\ p <= Len(text)
          /\ \A i \in 1..Len(text) :
                IF i > Len(text) - p THEN text[i] = "="
                ELSE IndexOf(Base64Alphabet, text[i]) >= 0

\* C22: base64-decode and base64url-decode return their error result, and
\* throw nothing, for every text whose normal form is no valid Base64; a
\* valid one gives a text.
C22_Base64DecodeRejects ==
    (pc = "settled" /\ arg.mode \in {"base64-decode", "base64url-decode"}) =>
        LET urlSafe == arg.mode = "base64url-decode"
        IN  /\ ~res.thrown
            /\ ~WellFormedBase64(NormalBase64(arg.text, urlSafe)) =>
                   res.value = ErrorResult(IF urlSafe THEN "Invalid Base64URL string"
                                           ELSE "Invalid Base64 string")
            /\ WellFormedBase64(NormalBase64(arg.text, urlSafe)) => res.value.type = "text"

C22_Witness ==
    /\ pc = "settled"
    /\ arg.mode = "base64-decode"
    /\ arg.text = <<"Q", "U", "J", "D", "R">>
    /\ res = Return(ErrorResult("Invalid Base64 string"))

C22_WitnessUrl ==
    /\ pc = "settled"
    /\ arg.mode = "base64url-decode"
    /\ arg.text = <<"Q", "-", "!">>
    /\ res = Return(ErrorResult("Invalid Base64URL string"))

\* C24: every decode mode of the bytes suite settles with a tagged result
\* for every text; none rejects.
C24_DecodeModesReturnResults ==
    pc = "settled" =>
        /\ ~res.thrown
        /\ res.value.type \in {"text", "error", "download", "image"}

(***************************************************************************)
(* The Raycast transforms hexEncode and asciiBinary (Buffer of Node).      *)
(***************************************************************************)
\* hexEncode.  Encode mode: the hex digits of the UTF-8 bytes, with the
\* options spacing, uppercase and prefix.  Decode mode: "0x" and white
\* space removed, then Buffer.from(clean, "hex"), which decodes pairs of hex
\* digits up to the first pair that is none and never throws, then
\* Buffer.toString("utf-8"), which keeps a byte order mark.
hexEncode(input, opts) ==
    LET clean  == RemoveSpaces(Remove0x(input))
        pairs  == Len(clean) \div 2
        bad    == {j \in 1..pairs : ~IsHexDigit(clean[2 * j - 1]) \/ ~IsHexDigit(clean[2 * j])}
        n      == IF bad = {} THEN pairs ELSE (CHOOSE j \in bad : \A k \in bad : j <= k) - 1
        bytes  == [j \in 1..n |-> ParseHexPair(SubSeq(clean, 2 * j - 1, 2 * j))]
    IN  IF input = <<>> THEN TextResult(<<>>)
        ELSE IF opts.mode = "encode"
        THEN TextResult(HexText(utf8ToBytes(input), opts.uppercase, opts.spacing, opts.prefix))
        ELSE TextResult(Utf8Decode(bytes, 1, [needed |-> 0, cp |-> 0, lower |-> 128, upper |-> 191]))

\* asciiBinary.  toBinary: 8 binary digits for every character.  Decode
\* mode: white space removed, an error unless the length is a multiple of
\* 8, then String.fromCharCode(parseInt(b, 2)) for every 8 characters:
\* parseInt reads a sign and the digits before the first other character,
\* NaN without a digit, and fromCharCode takes the number modulo 2^16, NaN
\* as 0.
asciiBinary(input, opts) ==
    LET clean  == RemoveSpaces(input)
        ParseInt2(b) ==
            LET signed == b[1] \in {"+", "-"}
                digits == IF signed THEN SubSeq(b, 2, 8) ELSE b
                stops  == {i \in 1..Len(digits) : digits[i] \notin {"0", "1"}}
                m      == IF stops = {} THEN Len(digits)
                          ELSE (CHOOSE i \in stops : \A k \in stops : i <= k) - 1
                RECURSIVE Value(_, _)
                Value(i, acc) ==
                    IF i > m THEN acc
                    ELSE Value(i + 1, 2 * acc + (IF digits[i] = "1" THEN 1 ELSE 0))
            IN  IF m = 0 THEN 0
                ELSE IF b[1] = "-" THEN (65536 - Value(1, 0)) % 65536
                ELSE Value(1, 0)
    IN  IF input = <<>> THEN TextResult(<<>>)
        ELSE IF opts.mode = "toBinary"
        THEN TextResult(BitGroups(utf8ToBytes(input), IF opts.spacing THEN <<" ">> ELSE <<>>))
        ELSE IF Len(clean) % 8 # 0
        THEN ErrorResult("Invalid binary (must be multiple of 8 bits)")
        ELSE TextResult([j \in 1..(Len(clean) \div 8) |->
                            ParseInt2(SubSeq(clean, 8 * j - 7, 8 * j))])

(***************************************************************************)
(* Raycast run: a text goes to hexEncode or to asciiBinary.                *)
(***************************************************************************)
RaycastHexTexts ==
    HexModeTexts
      \cup {<<"4", "1", "z", "z">>,
       <<"4", "1", "4">>,
       <<"0", "x", "4", "1", " ", "0", "x", "4", "g">>,
       <<"e", "f", "b", "b", "b", "f", "4", "1">>,
       <<"4", " ", "1">>,
       <<"z", "z", "4", "1">>}

RaycastBinaryTexts ==
    BinaryTexts
      \cup {<<"0", "1", "0", "0", "0", "0", "0", "x">>,
       <<"-", "0", "0", "0", "0", "0", "0", "1">>,
       <<"+", "1", "0", "0", "0", "0", "0", "1">>,
       <<"2", "x", "x", "x", "x", "x", "x", "x">>,
       <<"0", "1", "0", "0", "0", "0", "0", "1", " ", "0", "1", "0", "0", "0", "0", "1", "b">>}

PlainTexts == SeqsUpTo({"A", "z", "0", " "}, 2)

RaycastInputs ==
    {[tool |-> "hexEncode", text |-> t,
      opts |-> [mode |-> "decode", spacing |-> FALSE, uppercase |-> FALSE, prefix |-> FALSE]]
        : t \in RaycastHexTexts}
    \cup
    {[tool |-> "hexEncode", text |-> t,
      opts |-> [mode |-> "encode", spacing |-> s, uppercase |-> u, prefix |-> p]]
        : t \in PlainTexts, s \in BOOLEAN, u \in BOOLEAN, p \in BOOLEAN}
    \cup
    {[tool |-> "asciiBinary", text |-> t, opts |-> [mode |-> "toText", spacing |-> FALSE]]
        : t \in RaycastBinaryTexts}
    \cup
    {[tool |-> "asciiBinary", text |-> t, opts |-> [mode |-> "toBinary", spacing |-> s]]
        : t \in PlainTexts, s \in BOOLEAN}

InitRaycast ==
    /\ pc = "input"
    /\ arg \in RaycastInputs
    /\ out = None
    /\ res = None
    /\ IdleIds
    /\ IdleForm

HexEncodeRun ==
    /\ pc = "input"
    /\ arg.tool = "hexEncode"
    /\ res' = hexEncode(arg.text, arg.opts)
    /\ pc' = "done"
    /\ UNCHANGED <<arg, out, now, emitted, form>>

AsciiBinaryRun ==
    /\ pc = "input"
    /\ arg.tool = "asciiBinary"
    /\ res' = asciiBinary(arg.text, arg.opts)
    /\ pc' = "done"
    /\ UNCHANGED <<arg, out, now, emitted, form>>

NextRaycast == HexEncodeRun \/ AsciiBinaryRun

SpecRaycast == InitRaycast /\ [][NextRaycast]_vars

\* C25: hexEncode in decode mode returns an error result for a text that,
\* "0x" and white space removed, holds a character that is no hex digit;
\* asciiBinary in decode mode returns an error result for a text that,
\* white space removed, holds a character other than 0 and 1 or has a
\* length that is no multiple of 8.
C25_RaycastDecodeRejects ==
    /\ (pc = "done" /\ arg.tool = "hexEncode" /\ arg.opts.mode = "decode"
          /\ \E i \in 1..Len(Unmarked(arg.text)) : Unmarked(arg.text)[i] \notin HexChars)
         => res.type = "error"
    /\ (pc = "done" /\ arg.tool = "asciiBinary" /\ arg.opts.mode = "toText"
          /\ (\/ \E i \in 1..Len(BitText(arg.text)) : BitText(arg.text)[i] \notin {"0", "1"}
              \/ Len(BitText(arg.text)) % 8 # 0))
         => res.type = "error"

(***************************************************************************)
(* The random-string generator (passwordGenerator).                        *)
(***************************************************************************)
\* The character set passwordGenerator builds from its options.
PasswordChars(opts) ==
    LET upper     == UpperLetters
        lower     == LowerLetters
        nums      == <<"0", "1", "2", "3", "4", "5", "6", "7", "8", "9">>
        syms      == <<"!", "@", "#", "$", "%", "^", "&", "*", "(", ")", "_", "+", "-", "=", "[", "]", "{", "}", "|", ";", ":", ",", ".", "<", ">", "?">>
        ambiguous == {"0", "O", "1", "l", "I"}
        chosen    == (IF opts.uppercase THEN upper ELSE <<>>)
                       \o (IF opts.lowercase THEN lower ELSE <<>>)
                       \o (IF opts.numbers THEN nums ELSE <<>>)
                       \o (IF opts.symbols THEN syms ELSE <<>>)
        chars     == IF chosen = <<>> THEN lower \o nums ELSE chosen
    IN  IF opts.avoidAmbiguous THEN SelectSeq(chars, LAMBDA c : c \notin ambiguous) ELSE chars

\* passwordGenerator: random[i] are the bytes crypto.randomBytes(length)
\* gives in pass i of the loop; the passwords, joined by the caller below.
passwordGenerator(opts, random) ==
    LET chars  == PasswordChars(opts)
        length == NumberOr(opts.length, 16)
        count  == NumberOr(opts.count, 1)
    IN  [i \in 1..count |-> [k \in 1..length |-> chars[(random[i][k] % Len(chars)) + 1]]]

(***************************************************************************)
(* Password run: one call of passwordGenerator.                            *)
(***************************************************************************)
MaxPasswordLength == 2
MaxPasswords == 2

\* Random bytes: the ends of the range and both sides of the largest
\* multiple of a set of 26 characters.
RandomByteSample == {0, 233, 234, 255}

PasswordOptions ==
    [uppercase : BOOLEAN, lowercase : BOOLEAN, numbers : BOOLEAN, symbols : BOOLEAN,
     avoidAmbiguous : BOOLEAN, length : 1..MaxPasswordLength, count : 1..MaxPasswords]

InitPassword ==
    /\ pc = "input"
    /\ arg \in PasswordOptions
    /\ out = None
    /\ res = None
    /\ IdleIds
    /\ IdleForm

PasswordRun ==
    /\ pc = "input"
    /\ \E random \in [1..arg.count -> [1..arg.length -> RandomByteSample]] :
          /\ out' = passwordGenerator(arg, random)
          /\ res' = TextResult(Join(passwordGenerator(arg, random), <<"\n">>))
    /\ pc' = "generated"
    /\ UNCHANGED <<arg, now, emitted, form>>

NextPassword == PasswordRun

SpecPassword == InitPassword /\ [][NextPassword]_vars

\* The byte values that select the character at place i of a set of n.
Preimages(i, n) == {b \in 0..255 : (b % n) + 1 = i}

\* C27: for the character set of any options, byte mod length gives every
\* character the same number of the 256 byte values, and every character
\* of a password is of the set, which is not empty.
C27_UniformCharacters ==
    pc = "generated" =>
        LET chars == PasswordChars(arg)
            n     == Len(chars)
        IN  /\ n > 0
            /\ \A i, j \in 1..n : Cardinality(Preimages(i, n)) = Cardinality(Preimages(j, n))
            /\ \A p \in 1..Len(out) : \A k \in 1..Len(out[p]) :
                  \E i \in 1..n : chars[i] = out[p][k]

(***************************************************************************)
(* ToolForm (components/tool-form): the state result, error and isRunning, *)
(* runTransform, the auto-run timer and handleClear, once the tool runtime *)
(* has loaded.  A run of runTransform is in flight from its call to the    *)
(* end of its finally block; it waits for tool.transform and, for a        *)
(* download, for saveDownload.                                             *)
(***************************************************************************)
MaxRuns == 2

Null == [kind |-> "null"]

\* What tool.transform settles with: a string, a tagged object of one of
\* the types, or a rejection.
TransformOutputs == {"string", "error", "diff", "image", "download", "other", "throw"}

\* The input field: empty or not.
InputTexts == {<<>>, <<"x">>}

\* The options: as the tool's defaults set them, or changed.
OptionValues == {"default", "changed"}

InitForm ==
    /\ pc = "form"
    /\ arg \in [auto : BOOLEAN]
    /\ out = None
    /\ res = None
    /\ IdleIds
    /\ \E initialInput \in InputTexts :
          form = [input |-> initialInput, input2 |-> <<>>, options |-> "default",
                  result |-> Null, error |-> Null,
                  isRunning |-> FALSE, timer |-> arg.auto,
                  runs |-> [r \in 1..MaxRuns |-> "idle"]]

\* The start of runTransform, up to the await of tool.transform.
StartRun(f, r) ==
    [f EXCEPT !.isRunning = TRUE, !.error = Null, !.runs[r] = "transform"]

\* The end of runTransform with a result: setResult, then the finally block.
FinishRun(f, r, kind) ==
    [f EXCEPT !.result = [kind |-> kind], !.isRunning = FALSE, !.runs[r] = "idle"]

\* The end of runTransform with an error (a tagged error or the catch
\* block): setError, setResult(null), then the finally block.
FailRun(f, r, message) ==
    [f EXCEPT !.error = [kind |-> message], !.result = Null, !.isRunning = FALSE,
              !.runs[r] = "idle"]

\* onChange of the input field; for a tool that runs by itself the effect
\* clears its timer and sets a new one.
SetInput ==
    /\ pc = "form"
    /\ \E v \in InputTexts :
          /\ v # form.input
          /\ form' = [form EXCEPT !.input = v, !.timer = arg.auto]
    /\ UNCHANGED <<pc, arg, out, res, now, emitted>>

\* onChange of the second input field of a tool with two inputs; the
\* timer as for SetInput.
SetInput2 ==
    /\ pc = "form"
    /\ \E v \in InputTexts :
          /\ v # form.input2
          /\ form' = [form EXCEPT !.input2 = v, !.timer = arg.auto]
    /\ UNCHANGED <<pc, arg, out, res, now, emitted>>

\* onChange of an option field (of the form and of the generator view):
\* setOptions; the timer as for SetInput.
SetOptions ==
    /\ pc = "form"
    /\ \E v \in OptionValues :
          /\ v # form.options
          /\ form' = [form EXCEPT !.options = v, !.timer = arg.auto]
    /\ UNCHANGED <<pc, arg, out, res, now, emitted>>

\* The timer of the auto-run effect fires and calls runTransform.
AutoRunTimer ==
    /\ pc = "form"
    /\ form.timer
    /\ \E r \in 1..MaxRuns :
          /\ form.runs[r] = "idle"
          /\ form' = StartRun([form EXCEPT !.timer = FALSE], r)
    /\ UNCHANGED <<pc, arg, out, res, now, emitted>>

\* The Run action calls runTransform.
RunAction ==
    /\ pc = "form"
    /\ \E r \in 1..MaxRuns :
          /\ form.runs[r] = "idle"
          /\ form' = StartRun(form, r)
    /\ UNCHANGED <<pc, arg, out, res, now, emitted>>

\* tool.transform settles and runTransform goes on behind its await.
TransformSettles ==
    /\ pc = "form"
    /\ \E r \in 1..MaxRuns, output \in TransformOutputs :
          /\ form.runs[r] = "transform"
          /\ form' = CASE output = "throw"    -> FailRun(form, r, "thrown")
                       [] output = "error"    -> FailRun(form, r, "message")
                       [] output = "diff"     -> FinishRun(form, r, "diff")
                       [] output = "image"    -> FinishRun(form, r, "image")
                       [] output = "download" -> [form EXCEPT !.runs[r] = "saving"]
                       [] OTHER               -> FinishRun(form, r, "text")
    /\ UNCHANGED <<pc, arg, out, res, now, emitted>>

\* saveDownload settles: the file is saved, or writing it failed.
DownloadSettles ==
    /\ pc = "form"
    /\ \E r \in 1..MaxRuns, saved \in BOOLEAN :
          /\ form.runs[r] = "saving"
          /\ form' = IF saved THEN FinishRun(form, r, "download")
                     ELSE FailRun(form, r, "thrown")
    /\ UNCHANGED <<pc, arg, out, res, now, emitted>>

\* handleClear; emptying a field that was not empty sets the auto-run
\* timer as SetInput does.
HandleClear ==
    /\ pc = "form"
    /\ form' = [form EXCEPT !.input = <<>>, !.input2 = <<>>,
                            !.result = Null, !.error = Null,
                            !.timer = IF form.input # <<>> \/ form.input2 # <<>>
                                      THEN arg.auto ELSE form.timer]
    /\ UNCHANGED <<pc, arg, out, res, now, emitted>>

NextForm ==
    \/ SetInput
    \/ SetInput2
    \/ SetOptions
    \/ AutoRunTimer
    \/ RunAction
    \/ TransformSettles
    \/ DownloadSettles
    \/ HandleClear

SpecForm == InitForm /\ [][NextForm]_vars

\* No run of runTransform is in flight.
NoRunInFlight == \A r \in 1..MaxRuns : form.runs[r] = "idle"

\* C28: when no run is in flight, the form does not hold an error and a
\* result at the same time.
C28_ErrorOrResult ==
    (pc = "form" /\ NoRunInFlight) => ~(form.error # Null /\ form.result # Null)

\* C29: isRunning is TRUE exactly when a run of runTransform is in flight.
C29_IsRunningTracksRuns ==
    pc = "form" => (form.isRunning <=> ~NoRunInFlight)

=============================================================================
